---- MODULE Spec2Model ----
(***************************************************************************)
(* Intelligence engine of floodwatch-lk: scoring, clustering, summary and  *)
(* the analysis orchestrator (backend/app/services/intel_engine.py), with  *)
(* the SOS report source (sos_fetcher.py) and the elevation source         *)
(* (geonames.py) it awaits.                                                *)
(*                                                                         *)
(* Units.  Python floats are carried as scaled integers:                   *)
(*   latitude / longitude   millidegrees  (6.927 deg  -> 6927)             *)
(*   safe_for_hours         tenths of an hour (0.5 h  -> 5)                *)
(*   forecast rain          millimetres                                    *)
(*   avg_urgency            tenths (round(x, 1) -> 10 * x)                 *)
(* Python None is NoneNum in a numeric field and NoneStr in a string field.*)
(***************************************************************************)
EXTENDS Integers, Sequences, FiniteSets, TLC

\* ------------------------------------------------------------------ bounds
\* Number of run_analysis() invocations one behaviour starts.
MaxRuns == 2
\* Longest report list handed to the cluster builder in SpecCluster.
MaxClusterReports == 3
\* In SpecSummary: the districts with one report each, and the further
\* reports of any district and tier added to them.
MaxSummaryDistricts == 11
MaxSummaryExtras == 2
\* In SpecElev: the reports of each of the two SOS API bodies, together more
\* than the 50 coordinates run_analysis looks up.
MaxBulkReports == 26
\* Number of refresh_cache() calls one behaviour of SpecRefresh starts, and the
\* minutes its wall clock runs for.
MaxRefreshes == 3
MaxMinutes == 45

\* ------------------------------------------------------- Python's None
NoneNum == -999999
NoneStr == "<None>"
\* A value of the upstream JSON that float()/int() reject ("abc").
BadNum == -999998
\* A key the upstream JSON item does not carry at all.
MissingNum == -999997

\* Python truthiness of an optional number: None and 0 / 0.0 are falsy.
TruthyNum(x) == x # NoneNum /\ x # 0
\* Python truthiness of an optional string: None and "" are falsy.
TruthyStr(s) == s # NoneStr /\ s # ""

\* `x or d` on an optional number / string.
OrNum(x, d) == IF TruthyNum(x) THEN x ELSE d
OrStr(s, d) == IF TruthyStr(s) THEN s ELSE d

\* str.lower() on the strings of the model's vocabulary.
Lower(s) ==
    CASE s = "Colombo" -> "colombo"
      [] s = "COLOMBO" -> "colombo"
      [] s = "Galle"   -> "galle"
      [] s = "Unknown" -> "unknown"
      [] s = "CRITICAL" -> "critical"
      [] s = "HIGH"    -> "high"
      [] s = "MEDIUM"  -> "medium"
      [] s = "LOW"     -> "low"
      [] OTHER         -> s

\* str.upper() on the water-level strings of the model's vocabulary.
Upper(s) ==
    CASE s = "chest" -> "CHEST"
      [] s = "roof"  -> "ROOF"
      [] OTHER       -> s

Min(a, b) == IF a <= b THEN a ELSE b
Abs(a) == IF a < 0 THEN 0 - a ELSE a

RECURSIVE SumSeq(_)
SumSeq(s) == IF s = << >> THEN 0 ELSE Head(s) + SumSeq(Tail(s))

MapSeq(s, F(_)) == [i \in 1..Len(s) |-> F(s[i])]

Range(s) == {s[i] : i \in 1..Len(s)}

\* An order that puts, among elements of equal key, the later one first.
ComesBeforeLaterFirst(j, i, keys) ==
    keys[j] > keys[i] \/ (keys[j] = keys[i] /\ j > i)

\* list.sort(key=..., reverse=True): Timsort is stable, and reverse=True keeps
\* the original relative order of elements with equal keys.  Element j of
\* the list comes before element i in the sorted list:
ComesBefore(j, i, keys) ==
    keys[j] > keys[i] \/ (keys[j] = keys[i] /\ j < i)

\* The indices 1..n in sorted order: the element at position p has p - 1
\* elements before it.  (SubSeq makes a tuple of the table, so that TLC
\* computes each entry once.)
SortIdxDesc(n, keys) ==
    LET before == SubSeq([ i \in 1..n |->
                             Cardinality({ j \in 1..n : ComesBefore(j, i, keys) }) ],
                         1, n)
    IN  [ p \in 1..n |-> CHOOSE i \in 1..n : before[i] = p - 1 ]

SortDesc(s, Key(_)) ==
    LET keys == SubSeq([i \in 1..Len(s) |-> Key(s[i])], 1, Len(s))
        perm == SortIdxDesc(Len(s), keys)
    IN  [i \in 1..Len(s) |-> s[perm[i]]]

\* ------------------------------------------------------------ geonames.py
\* calculate_elevation_risk: (risk_score, risk_level)
calculate_elevation_risk(elevation) ==
    IF elevation = NoneNum THEN <<0, "UNKNOWN">>
    ELSE IF elevation < 5 THEN <<15, "CRITICAL">>
    ELSE IF elevation < 15 THEN <<10, "HIGH">>
    ELSE IF elevation < 50 THEN <<5, "MEDIUM">>
    ELSE IF elevation < 100 THEN <<2, "LOW">>
    ELSE <<0, "MINIMAL">>

\* round(x, 2) of a coordinate in millidegrees: the nearest multiple of 10
\* (ties to the even hundredth; the model's coordinates avoid ties).
Round2(x) ==
    LET q == x \div 10
        r == x % 10
    IN  IF r < 5 THEN 10 * q
        ELSE IF r > 5 THEN 10 * (q + 1)
        ELSE IF q % 2 = 0 THEN 10 * q ELSE 10 * (q + 1)

\* cache_key = (round(lat, 2), round(lng, 2))
CacheKey(lat, lng) == <<Round2(lat), Round2(lng)>>

\* dict.get(key): None when the key is absent.
DictGet(d, k) == IF k \in DOMAIN d THEN d[k] ELSE NoneNum

\* d[k] = v on a dict held as a function.
DictPut(d, k, v) == [x \in (DOMAIN d) \cup {k} |-> IF x = k THEN v ELSE d[x]]

EmptyDict == [x \in {} |-> 0]

\* ------------------------------------------------------- intel_engine.py
\* IntelEngine.WATER_LEVEL_SCORES.get(water_level, 10)
WATER_LEVEL_SCORES(water_level) ==
    CASE water_level = "ROOF"    -> 40
      [] water_level = "NECK"    -> 35
      [] water_level = "CHEST"   -> 25
      [] water_level = "WAIST"   -> 15
      [] water_level = "ANKLE"   -> 5
      [] water_level = "UNKNOWN" -> 10
      [] OTHER                   -> 10

\* weather_by_district[(w.get("district") or "").lower()] = w, later records
\* overwriting earlier ones with the same lowered name.
WeatherByDistrict(weather_data) ==
    LET key(w) == Lower(OrStr(w.district, ""))
        keys == {key(weather_data[i]) : i \in 1..Len(weather_data)}
        last(k) == CHOOSE i \in 1..Len(weather_data) :
                      /\ key(weather_data[i]) = k
                      /\ \A j \in 1..Len(weather_data) :
                            key(weather_data[j]) = k => j <= i
    IN  [k \in keys |-> weather_data[last(k)]]

\* Time pressure with the two most urgent buckets exchanged.
TimePressureExchanged(safe_hours) ==
    IF safe_hours = NoneNum THEN 0
    ELSE IF safe_hours <= 10 THEN 15
    ELSE IF safe_hours <= 30 THEN 20
    ELSE IF safe_hours <= 60 THEN 10
    ELSE IF safe_hours <= 120 THEN 5
    ELSE 0

\* Time pressure with the upper edge of every bucket left to the next one.
TimePressureOpenEdges(safe_hours) ==
    IF safe_hours = NoneNum THEN 0
    ELSE IF safe_hours < 10 THEN 20
    ELSE IF safe_hours < 30 THEN 15
    ELSE IF safe_hours < 60 THEN 10
    ELSE IF safe_hours < 120 THEN 5
    ELSE 0

\* Time pressure (intel_engine.py 144-158); safe_hours in tenths of an hour.
TimePressure(safe_hours) ==
    IF safe_hours = NoneNum THEN 0
    ELSE IF safe_hours <= 10 THEN 20
    ELSE IF safe_hours <= 30 THEN 15
    ELSE IF safe_hours <= 60 THEN 10
    ELSE IF safe_hours <= 120 THEN 5
    ELSE 0

\* Weather escalation that looks the district up as it is written.
WeatherRiskExactCase(district, weather_by_district) ==
    LET d == OrStr(district, "")
    IN  IF d \notin DOMAIN weather_by_district THEN 0
        ELSE LET forecast_rain == OrNum(weather_by_district[d].forecast_precip_24h_mm, 0)
             IN  IF forecast_rain > 100 THEN 15
                 ELSE IF forecast_rain > 50 THEN 10
                 ELSE IF forecast_rain > 25 THEN 5
                 ELSE 0

\* Weather escalation (intel_engine.py 176-191).
WeatherRisk(district, weather_by_district) ==
    LET d == Lower(OrStr(district, ""))
    IN  IF d \notin DOMAIN weather_by_district THEN 0
        ELSE LET forecast_rain == OrNum(weather_by_district[d].forecast_precip_24h_mm, 0)
             IN  IF forecast_rain > 100 THEN 15
                 ELSE IF forecast_rain > 50 THEN 10
                 ELSE IF forecast_rain > 25 THEN 5
                 ELSE 0

\* Tiers with the thresholds excluded.
TierLow(score) ==
    IF score > 70 THEN "CRITICAL"
    ELSE IF score > 50 THEN "HIGH"
    ELSE IF score > 30 THEN "MEDIUM"
    ELSE "LOW"

\* Urgency tier of a capped score (intel_engine.py 210-218).
UrgencyTier(score) ==
    IF score >= 70 THEN "CRITICAL"
    ELSE IF score >= 50 THEN "HIGH"
    ELSE IF score >= 30 THEN "MEDIUM"
    ELSE "LOW"

\* A score left uncapped.
CapNone(score) == score

\* score = min(score, 100)  (intel_engine.py 207-208)
CapScore(score) == Min(score, 100)

\* The battery test met by every report that has no power or a low battery.
LowBatteryEither(report) ==
    ~report.has_power \/ OrNum(report.battery_percent, 0) < 20

\* not report.get("has_power") and (report.get("battery_percent") or 0) < 20
\* (intel_engine.py 172)
LowBattery(report) ==
    ~report.has_power /\ OrNum(report.battery_percent, 0) < 20

\* The points of every factor of one report, in the order the loop adds them
\* (intel_engine.py 124-205).
ScoreFactors(report, weather_by_district, elevation_cache) ==
    LET water_level == Upper(OrStr(report.water_level, "UNKNOWN"))
        has_coords == TruthyNum(report.latitude) /\ TruthyNum(report.longitude)
        elevation_m ==
            IF has_coords
            THEN DictGet(elevation_cache, CacheKey(report.latitude, report.longitude))
            ELSE NoneNum
    IN  << [factor |-> "water_level", points |-> WATER_LEVEL_SCORES(water_level)],
           [factor |-> "medical_emergency",
            points |-> IF report.has_medical_emergency THEN 15 ELSE 0],
           [factor |-> "disabled", points |-> IF report.has_disabled THEN 8 ELSE 0],
           [factor |-> "elderly", points |-> IF report.has_elderly THEN 5 ELSE 0],
           [factor |-> "children", points |-> IF report.has_children THEN 2 ELSE 0],
           [factor |-> "safe_hours", points |-> TimePressure(report.safe_for_hours)],
           [factor |-> "people", points |-> Min(report.number_of_people, 10)],
           [factor |-> "no_food", points |-> IF ~report.has_food THEN 3 ELSE 0],
           [factor |-> "no_water", points |-> IF ~report.has_water THEN 5 ELSE 0],
           [factor |-> "low_battery",
            points |-> IF LowBattery(report) THEN 2 ELSE 0],
           [factor |-> "forecast_rain",
            points |-> WeatherRisk(report.district, weather_by_district)],
           [factor |-> "elevation",
            points |-> IF elevation_m # NoneNum
                       THEN calculate_elevation_risk(elevation_m)[1] ELSE 0] >>

\* The uncapped sum of the factors of one report.
RawScore(report, weather_by_district, elevation_cache) ==
    SumSeq(MapSeq(ScoreFactors(report, weather_by_district, elevation_cache),
                  LAMBDA f : f.points))

\* The body of the scoring loop (intel_engine.py 120-229) for one report.
ScoreReport(report, weather_by_district, elevation_cache) ==
    LET all_factors == ScoreFactors(report, weather_by_district, elevation_cache)
        score == CapScore(RawScore(report, weather_by_district, elevation_cache))
        has_coords == TruthyNum(report.latitude) /\ TruthyNum(report.longitude)
        elevation_m ==
            IF has_coords
            THEN DictGet(elevation_cache, CacheKey(report.latitude, report.longitude))
            ELSE NoneNum
        elev == calculate_elevation_risk(elevation_m)
        \* water_level and people are always recorded, the others when they add points
        recorded(f) == f.factor \in {"water_level", "people"} \/ f.points > 0
    IN  [ id |-> report.id,
          district |-> report.district,
          latitude |-> report.latitude,
          longitude |-> report.longitude,
          water_level |-> report.water_level,
          number_of_people |-> report.number_of_people,
          has_medical_emergency |-> report.has_medical_emergency,
          has_disabled |-> report.has_disabled,
          has_elderly |-> report.has_elderly,
          has_children |-> report.has_children,
          safe_for_hours |-> report.safe_for_hours,
          has_food |-> report.has_food,
          has_water |-> report.has_water,
          has_power |-> report.has_power,
          battery_percent |-> report.battery_percent,
          urgency_score |-> score,
          urgency_tier |-> UrgencyTier(score),
          score_factors |-> SelectSeq(all_factors, recorded),
          weather_risk |-> WeatherRisk(report.district, weather_by_district),
          elevation_m |-> elevation_m,
          elevation_risk |-> IF elevation_m # NoneNum THEN elev[1] ELSE 0,
          elevation_risk_level |-> IF elevation_m # NoneNum THEN elev[2] ELSE "UNKNOWN" ]

UrgencyScoreOf(r) == r.urgency_score

\* _compute_priorities after the elevation pre-fetch (intel_engine.py 96-100,
\* 119-234): score every report, then sort by score descending.
ScoreAndSort(reports, weather_data, elevation_cache) ==
    LET wbd == WeatherByDistrict(weather_data)
        scored == [i \in 1..Len(reports) |->
                      ScoreReport(reports[i], wbd, elevation_cache)]
    IN  SortDesc(scored, UrgencyScoreOf)

\* CLUSTER_RADIUS_KM = 2.0, in metres.
CLUSTER_RADIUS_M == 2000

\* round(total / n, 1) in tenths: float division, then round-half-even on the
\* tenth (for n < 20 every tie is a quarter, which a float holds exactly).
RoundTenths(total, n) ==
    LET x == 10 * total
        q == x \div n
        r == x % n
    IN  IF 2 * r < n THEN q
        ELSE IF 2 * r > n THEN q + 1
        ELSE IF q % 2 = 0 THEN q ELSE q + 1

\* _haversine_distance, in metres (R = 6371 km).  Every coordinate-bearing
\* report of the model lies on the meridian Longitude0, where delta_lon = 0
\* gives a = sin^2(delta_lat / 2) and c = |delta_lat| in radians, so that
\* R * c = 111.195 m per millidegree of latitude.
_haversine_distance(lat1, lon1, lat2, lon2) ==
    (111195 * Abs(lat2 - lat1)) \div 1000

HasCoords(r) == TruthyNum(r.latitude) /\ TruthyNum(r.longitude)

\* r.get("district", "Unknown"): the key is always present in a normalized
\* report, so the value is returned as it is (None and "" included).
DistrictKey(r) == r.district

\* sum(r.get("number_of_people", 1) for r in reports)
PeopleOf(r) == r.number_of_people

\* _build_cluster (intel_engine.py 298-348).  `districts` is a set, as in the
\* source; the synthesized name ends in an unspecified element of it, which
\* the model leaves out of the name.
_build_cluster(reports, name) ==
    LET total_people == SumSeq(MapSeq(reports, PeopleOf))
        total_urgency == SumSeq(MapSeq(reports, UrgencyScoreOf))
        lats == SelectSeq(MapSeq(reports, LAMBDA r : r.latitude), TruthyNum)
        lngs == SelectSeq(MapSeq(reports, LAMBDA r : r.longitude), TruthyNum)
        n == Len(reports)
    IN  [ cluster_id |-> reports[1].id,
          name |-> IF TruthyStr(name) THEN name ELSE "Cluster near",
          districts |-> {DistrictKey(reports[i]) : i \in 1..n},
          report_count |-> n,
          total_people |-> total_people,
          total_urgency |-> total_urgency,
          avg_urgency |-> IF n > 0 THEN RoundTenths(total_urgency, n) ELSE 0,
          critical_count |-> Len(SelectSeq(reports, LAMBDA r : r.urgency_tier = "CRITICAL")),
          high_count |-> Len(SelectSeq(reports, LAMBDA r : r.urgency_tier = "HIGH")),
          centroid |-> [ latitude |-> IF lats # << >> THEN SumSeq(lats) \div Len(lats)
                                      ELSE NoneNum,
                         longitude |-> IF lngs # << >> THEN SumSeq(lngs) \div Len(lngs)
                                       ELSE NoneNum ],
          vulnerabilities |->
              [ medical_emergency |-> \E i \in 1..n : reports[i].has_medical_emergency,
                elderly |-> \E i \in 1..n : reports[i].has_elderly,
                children |-> \E i \in 1..n : reports[i].has_children,
                disabled |-> \E i \in 1..n : reports[i].has_disabled ],
          reports |-> MapSeq(reports, LAMBDA r : r.id),
          top_reports |-> SubSeq(reports, 1, Min(n, 5)) ]

\* The average urgency as a sort key.
AvgUrgencyOf(c) == c.avg_urgency

\* key=lambda c: c["total_urgency"]  (intel_engine.py 281, 295)
TotalUrgencyOf(c) == c.total_urgency

\* The indices of a set, in increasing order.
SetToSortedSeq(S) ==
    [ p \in 1..Cardinality(S) |->
        CHOOSE x \in S : Cardinality({ y \in S : y < x }) = p - 1 ]

\* The keys of a list, repeated as often as they occur.
AllOccurrences(keys) == keys

\* First occurrences of the keys of a list, in list order (the iteration
\* order of a dict filled while scanning the list).
FirstOccurrences(keys) ==
    LET first == SelectSeq([i \in 1..Len(keys) |-> i],
                           LAMBDA i : \A j \in 1..(i - 1) : keys[j] # keys[i])
    IN  [n \in 1..Len(first) |-> keys[first[n]]]

\* _cluster_by_district (intel_engine.py 285-296)
_cluster_by_district(reports) ==
    LET keys == FirstOccurrences(MapSeq(reports, DistrictKey))
        group(d) == SelectSeq(reports, LAMBDA r : DistrictKey(r) = d)
        clusters == [i \in 1..Len(keys) |-> _build_cluster(group(keys[i]), keys[i])]
    IN  SortDesc(clusters, TotalUrgencyOf)

\* Marking the seed alone.
MarkUsedSeedOnly(used, i, near) == used \cup {i}

\* used.add(i) for the seed and used.add(j) for every absorbed report
\* (intel_engine.py 260, 274).
MarkUsed(used, i, near) == used \cup {i} \cup near

\* Absorption that chains through any report within the radius of the seed.
TransitiveNear(geo, i, used) ==
    {j \in (1..Len(geo)) \ (used \cup {i}) :
        \E k \in 1..Len(geo) :
            /\ _haversine_distance(geo[i].latitude, geo[i].longitude,
                                   geo[k].latitude, geo[k].longitude) <= CLUSTER_RADIUS_M
            /\ _haversine_distance(geo[k].latitude, geo[k].longitude,
                                   geo[j].latitude, geo[j].longitude) <= CLUSTER_RADIUS_M}

\* A seed that absorbs nothing.
NearNobody(geo, i, used) == {}

\* The reports the seed geo[i] absorbs: every report not yet used within the
\* radius of the seed (intel_engine.py 263-274).
Near(geo, i, used) ==
    {j \in (1..Len(geo)) \ (used \cup {i}) :
        _haversine_distance(geo[i].latitude, geo[i].longitude,
                            geo[j].latitude, geo[j].longitude) <= CLUSTER_RADIUS_M}

\* The greedy loop of _detect_clusters (intel_engine.py 251-278).
RECURSIVE GreedyClusters(_, _, _, _)
GreedyClusters(geo, i, used, clusters) ==
    LET unused == { k \in i..Len(geo) : k \notin used }
    IN  IF unused = {} THEN clusters
        ELSE LET seed == CHOOSE k \in unused : \A l \in unused : k <= l
                 near == Near(geo, seed, used)
                 cluster_reports ==
                     <<geo[seed]>> \o MapSeq(SetToSortedSeq(near), LAMBDA j : geo[j])
             IN  GreedyClusters(geo, seed + 1, MarkUsed(used, seed, near),
                                Append(clusters, _build_cluster(cluster_reports, NoneStr)))

\* _detect_clusters (intel_engine.py 236-283)
_detect_clusters(reports) ==
    LET geo_reports == SelectSeq(reports, HasCoords)
    IN  IF geo_reports = << >> THEN _cluster_by_district(reports)
        ELSE SortDesc(GreedyClusters(geo_reports, 1, {}, << >>), TotalUrgencyOf)

\* d = r.get("district") or "Unknown"  (intel_engine.py 372)
SummaryKey(r) == OrStr(r.district, "Unknown")

CountIf(s, P(_)) == Len(SelectSeq(s, P))

\* The tier of a report as it is written, upper case.
TierBucketAsWritten(r) == r.urgency_tier

\* r.get("urgency_tier", "medium").lower(): the counter of the stat block a
\* report is added to (intel_engine.py 375).
TierBucket(r) == Lower(r.urgency_tier)

\* The stat block of one district (intel_engine.py 358-398).
DistrictStats(d, reports, weather_by_district) ==
    LET group == SelectSeq(reports, LAMBDA r : SummaryKey(r) = d)
        count == Len(group)
        \* sum(... for r in reports if r.get("district") == d)
        urgency_sum == SumSeq(MapSeq(SelectSeq(reports, LAMBDA r : r.district = d),
                                     UrgencyScoreOf))
        wkey == Lower(OrStr(d, ""))
        has_weather == wkey \in DOMAIN weather_by_district
    IN  [ district |-> d,
          count |-> count,
          total_people |-> SumSeq(MapSeq(group, PeopleOf)),
          critical |-> CountIf(group, LAMBDA r : TierBucket(r) = "critical"),
          high |-> CountIf(group, LAMBDA r : TierBucket(r) = "high"),
          medium |-> CountIf(group, LAMBDA r : TierBucket(r) = "medium"),
          low |-> CountIf(group, LAMBDA r : TierBucket(r) = "low"),
          avg_urgency |-> IF count > 0 THEN RoundTenths(urgency_sum, count) ELSE 0,
          needs_food |-> CountIf(group, LAMBDA r : ~r.has_food),
          needs_water |-> CountIf(group, LAMBDA r : ~r.has_water),
          has_medical |-> CountIf(group, LAMBDA r : r.has_medical_emergency),
          forecast_rain_24h |->
              IF has_weather THEN weather_by_district[wkey].forecast_precip_24h_mm ELSE 0,
          current_alert_level |->
              IF has_weather THEN weather_by_district[wkey].alert_level ELSE "green" ]

\* The report count alone as the sort key.
CountKey(stats) == stats.count

\* key=lambda x: (x[1]["critical"] + x[1]["high"], x[1]["count"]): the pair,
\* compared lexicographically, as one number (count stays below 1000).
AffectedKey(stats) == (stats.critical + stats.high) * 1000 + stats.count

\* _generate_summary (intel_engine.py 350-438).  `districts` is the
\* per-district map, held as the list of its stat blocks in insertion order.
_generate_summary(reports, clusters, weather_data, now) ==
    LET wbd == WeatherByDistrict(weather_data)
        keys == FirstOccurrences(MapSeq(reports, SummaryKey))
        district_stats == [i \in 1..Len(keys) |-> DistrictStats(keys[i], reports, wbd)]
        sorted_districts == SortDesc(district_stats, AffectedKey)
    IN  [ total_reports |-> Len(reports),
          total_people_affected |-> SumSeq(MapSeq(reports, PeopleOf)),
          total_clusters |-> Len(clusters),
          urgency_breakdown |->
              [ critical |-> CountIf(reports, LAMBDA r : r.urgency_tier = "CRITICAL"),
                high |-> CountIf(reports, LAMBDA r : r.urgency_tier = "HIGH"),
                medium |-> CountIf(reports, LAMBDA r : r.urgency_tier = "MEDIUM"),
                low |-> CountIf(reports, LAMBDA r : r.urgency_tier = "LOW") ],
          resource_needs |->
              [ needs_food |-> CountIf(reports, LAMBDA r : ~r.has_food),
                needs_water |-> CountIf(reports, LAMBDA r : ~r.has_water),
                medical_emergencies |->
                    CountIf(reports, LAMBDA r : r.has_medical_emergency) ],
          vulnerability_counts |->
              [ with_elderly |-> CountIf(reports, LAMBDA r : r.has_elderly),
                with_children |-> CountIf(reports, LAMBDA r : r.has_children),
                with_disabled |-> CountIf(reports, LAMBDA r : r.has_disabled) ],
          most_affected_districts |->
              SubSeq(sorted_districts, 1, Min(Len(sorted_districts), 10)),
          districts |-> district_stats,
          analyzed_at |-> now ]

\* ---------------------------------------------------------- sos_fetcher.py
\* A string-valued key the upstream JSON item does not carry.
MissingStr == "<missing>"

\* _parse_float (sos_fetcher.py 123-130); an absent key reads as None.
_parse_float(value) ==
    IF value \in {NoneNum, MissingNum, BadNum} THEN NoneNum ELSE value

\* _parse_int (sos_fetcher.py 132-139)
_parse_int(value, default) ==
    IF value \in {NoneNum, BadNum} THEN default ELSE value

\* item.get(key, default) on a number / string / flag of the upstream item.
GetNum(value, default) == IF value = MissingNum THEN default ELSE value
GetStr(value, default) == IF value = MissingStr THEN default ELSE value
GetFlag(value, default) == IF value = "missing" THEN default ELSE value = "true"

\* One item of _normalize_reports (sos_fetcher.py 81-118), for the fields
\* the intelligence engine reads.
NormalizeItem(item) ==
    [ id |-> item.id,
      district |-> GetStr(item.district, "Unknown"),
      latitude |-> _parse_float(item.latitude),
      longitude |-> _parse_float(item.longitude),
      number_of_people |-> _parse_int(GetNum(item.numberOfPeople, 1), 0),
      water_level |-> GetStr(item.waterLevel, "UNKNOWN"),
      safe_for_hours |-> _parse_float(item.safeForHours),
      has_children |-> GetFlag(item.hasChildren, FALSE),
      has_elderly |-> GetFlag(item.hasElderly, FALSE),
      has_disabled |-> GetFlag(item.hasDisabled, FALSE),
      has_medical_emergency |-> GetFlag(item.hasMedicalEmergency, FALSE),
      has_food |-> GetFlag(item.hasFood, TRUE),
      has_water |-> GetFlag(item.hasWater, TRUE),
      has_power |-> GetFlag(item.hasPowerBank, FALSE),
      battery_percent |-> _parse_int(GetNum(item.batteryPercentage, NoneNum), 0) ]

\* _normalize_reports (sos_fetcher.py 67-121) on a list of JSON objects.
_normalize_reports(data) == MapSeq(data, NormalizeItem)

\* A cache that holds the reports of the latest body only.
ReplaceCache(cache, new_reports) ==
    SelectSeq(new_reports, LAMBDA report : report.id # NoneNum)

\* _merge_reports (sos_fetcher.py 49-65).  The cache is a dict keyed by id,
\* held as the list of its values in insertion order.
RECURSIVE _merge_reports(_, _)
_merge_reports(cache, new_reports) ==
    IF new_reports = << >> THEN cache
    ELSE IF Head(new_reports).id = NoneNum
    THEN _merge_reports(cache, Tail(new_reports))
    ELSE IF \E i \in 1..Len(cache) : cache[i].id = Head(new_reports).id
    THEN _merge_reports([i \in 1..Len(cache) |->
                            IF cache[i].id = Head(new_reports).id
                            THEN Head(new_reports) ELSE cache[i]],
                        Tail(new_reports))
    ELSE _merge_reports(Append(cache, Head(new_reports)), Tail(new_reports))

\* -------------------------------------------------------- weather_cache.py
\* settings.threshold_yellow / orange / red (mm in 24 hours)
threshold_yellow == 50
threshold_orange == 100
threshold_red == 150

\* get_alert_level(rainfall, 24): the scale hours / 24 is 1.
get_alert_level(rainfall_mm) ==
    IF rainfall_mm >= threshold_red THEN "red"
    ELSE IF rainfall_mm >= threshold_orange THEN "orange"
    ELSE IF rainfall_mm >= threshold_yellow THEN "yellow"
    ELSE "green"

\* get_all_weather (weather_cache.py 141-182) on the cached entries, for the
\* fields the intelligence engine reads.
get_all_weather(cache) ==
    MapSeq(cache, LAMBDA c :
        [ district |-> c.district,
          forecast_precip_24h_mm |-> c.forecast_precip_24h_mm,
          alert_level |-> get_alert_level(c.rainfall_24h_mm) ])

\* CACHE_DURATION_MINUTES (weather_cache.py 20)
CACHE_DURATION_MINUTES == 30

\* `name in cache`, cache[name] and cache[name] = entry on a dict kept as the
\* sequence of its values in insertion order.
HasEntry(cache, name) == \E i \in 1..Len(cache) : cache[i].district = name
EntryFor(cache, name) ==
    cache[CHOOSE i \in 1..Len(cache) : cache[i].district = name]
SetEntry(cache, entry) ==
    IF HasEntry(cache, entry.district)
    THEN [ i \in 1..Len(cache) |->
             IF cache[i].district = entry.district THEN entry ELSE cache[i] ]
    ELSE Append(cache, entry)

\* is_cache_valid (weather_cache.py 75-80), with datetime.now() = time.
is_cache_valid(cache, last_update, time) ==
    IF last_update = NoneNum \/ cache = << >> THEN FALSE
    ELSE time - last_update < CACHE_DURATION_MINUTES

\* `if success_count > 0` (weather_cache.py 131), and its removal.
ReplaceAlways(success_count) == TRUE
ShouldReplace(success_count) == success_count > 0

\* ------------------------------------------------------------------ state
VARIABLES
    \* sos_fetcher._cache (values in insertion order), sos_fetcher._last_fetch
    sos_cache, sos_last_fetch,
    \* geonames._elevation_cache
    _elevation_cache,
    \* weather_cache._cache (entries in insertion order)
    weather_cache,
    \* IntelEngine fields
    _cached_priorities, _cached_clusters, _cached_summary, _last_analysis,
    \* position and locals of each caller's run_analysis() coroutine
    pc, local,
    \* datetime.utcnow(), as a logical clock
    clock,
    \* run_analysis() invocations started so far
    runs_started,
    \* what the read accessor called in this step returned (none in other steps)
    returned,
    \* history: the publication each cached collection was written by
    written_by,
    \* inputs and output of the scoring function on its own
    score_pc, score_reports, score_weather, score_elev, score_out,
    \* input and output of the cluster builder on its own
    cluster_pc, cluster_in, cluster_out,
    \* input and output of the summary aggregator on its own
    summary_pc, summary_in, summary_out,
    \* WeatherCache._last_update (minutes), WeatherCache._lock (its holder)
    weather_last_update, weather_lock,
    \* position and locals of each caller's refresh_cache() coroutine
    refresh_pc, refresh_local,
    \* datetime.now() in minutes, and the refresh_cache() calls started so far
    wall_clock, refreshes_started

engineVars == << sos_cache, sos_last_fetch, _elevation_cache, weather_cache,
                 _cached_priorities, _cached_clusters, _cached_summary,
                 _last_analysis, pc, local, clock, runs_started, returned,
                 written_by >>
cacheVars == << _cached_priorities, _cached_clusters, _cached_summary, _last_analysis >>
scoreVars == << score_pc, score_reports, score_weather, score_elev, score_out >>
clusterVars == << cluster_pc, cluster_in, cluster_out >>
summaryVars == << summary_pc, summary_in, summary_out >>
refreshVars == << weather_last_update, weather_lock, refresh_pc, refresh_local,
                  wall_clock, refreshes_started >>
\* Everything refresh_cache() never touches.
engineButWeather == << sos_cache, sos_last_fetch, _elevation_cache,
                       _cached_priorities, _cached_clusters, _cached_summary,
                       _last_analysis, pc, local, clock, runs_started, returned,
                       written_by >>
vars == << engineVars, scoreVars, clusterVars, summaryVars, refreshVars >>

\* The callers of run_analysis(): the scheduled job (scheduler.py 59-70) and
\* the POST /refresh handler (routers/intel.py 126-139).
Tasks == {"scheduler", "refresh"}

\* ----------------------------------------------------------------- inputs
\* Colombo, 6.9271 N 79.8612 E (flood_patterns.py 17), in millidegrees.
Latitude0 == 6927
Longitude0 == 79861

RawItem(id, district, lat, people, water, safe, medical, food) ==
    [ id |-> id, district |-> district,
      latitude |-> lat,
      longitude |-> IF lat = NoneNum THEN NoneNum ELSE Longitude0,
      numberOfPeople |-> people, waterLevel |-> water, safeForHours |-> safe,
      hasChildren |-> "missing", hasElderly |-> "missing", hasDisabled |-> "missing",
      hasMedicalEmergency |-> medical, hasFood |-> food, hasWater |-> food,
      hasPowerBank |-> "missing", batteryPercentage |-> MissingNum ]

\* The bodies the SOS API answers with.
ApiResponses ==
    { << >>,
      << RawItem(1, "Colombo", Latitude0, 12, "ROOF", 5, "true", "false"),
         RawItem(2, MissingStr, NoneNum, BadNum, "ANKLE", MissingNum, "false", "true") >>,
      << RawItem(1, "Colombo", Latitude0, 3, "CHEST", 50, "false", "true"),
         RawItem(3, "colombo", Latitude0 + 17, MissingNum, MissingStr, NoneNum,
                 "missing", "missing"),
         RawItem(NoneNum, "Galle", NoneNum, 1, "NECK", NoneNum, "false", "true") >> }

\* What one GeoNames lookup ends with: an elevation in metres, or None when
\* the request fails or the service has no data (geonames.py 45-57).
ElevationOutcomes == {NoneNum, 3}

\* The contents of the weather cache.
WeatherCaches ==
    { << [district |-> "Colombo", rainfall_24h_mm |-> 160,
          forecast_precip_24h_mm |-> 120, fetched_at |-> 0] >> }

\* ---------------------------------------------------------- construction
\* self._cached_summary = {} and a call that has not returned anything.
IdleLocal ==
    [ reports |-> << >>, weather_data |-> << >>, coords_to_fetch |-> << >>,
      idx |-> 0, elevation_cache |-> EmptyDict, fetch_failed |-> FALSE ]

NothingReturned == [op |-> "none"]

\* The callers of refresh_cache(): the scheduled job (scheduler.py 28) and the
\* weather and alert request handlers (routers/weather.py 63-89).
Refreshers == {"job", "request"}

\* The locals of a refresh_cache() call that has not run.
IdleRefresh ==
    [ call |-> 0, force |-> FALSE, idx |-> 0, new_cache |-> << >>,
      success_count |-> 0, failed |-> {}, result |-> "none" ]

\* No refresh_cache() call is made.
RefreshOff ==
    /\ weather_last_update = 0
    /\ weather_lock = "free"
    /\ refresh_pc = [t \in Refreshers |-> "idle"]
    /\ refresh_local = [t \in Refreshers |-> IdleRefresh]
    /\ wall_clock = 0
    /\ refreshes_started = 0

EngineStart ==
    /\ sos_cache = << >>
    /\ sos_last_fetch = NoneNum
    /\ _elevation_cache = EmptyDict
    /\ _cached_priorities = << >>
    /\ _cached_clusters = << >>
    /\ _cached_summary = EmptyDict
    /\ _last_analysis = NoneNum
    /\ pc = [t \in Tasks |-> "idle"]
    /\ local = [t \in Tasks |-> IdleLocal]
    /\ clock = 1
    /\ runs_started = 0
    /\ returned = NothingReturned
    /\ written_by = [priorities |-> 0, clusters |-> 0, summary |-> 0]

EngineInit ==
    /\ EngineStart
    /\ weather_cache \in WeatherCaches
    /\ RefreshOff

ScoreOff ==
    /\ score_pc = "off"
    /\ score_reports = << >>
    /\ score_weather = << >>
    /\ score_elev = EmptyDict
    /\ score_out = << >>

ClusterOff ==
    /\ cluster_pc = "off"
    /\ cluster_in = << >>
    /\ cluster_out = << >>

SummaryOff ==
    /\ summary_pc = "off"
    /\ summary_in = << >>
    /\ summary_out = EmptyDict

\* ------------------------------------------------- IntelEngine.run_analysis
\* coords_to_fetch[:50]  (intel_engine.py 104-111)
MaxElevationLookups == 50

CoordsToFetch(reports) ==
    LET coords == MapSeq(SelectSeq(reports, HasCoords),
                         LAMBDA r : <<r.latitude, r.longitude>>)
    IN  SubSeq(coords, 1, Min(Len(coords), MaxElevationLookups))

\* get_elevation returns a cached elevation without suspending
\* (geonames.py 29-32): the loop of intel_engine.py 111-117 runs on to the
\* first coordinate GeoNames has to be asked for.
SkipCached(coords, i, elevation_cache, geonames_cache) ==
    LET KeyAt(j) == CacheKey(coords[j][1], coords[j][2])
        misses == { j \in i..Len(coords) : KeyAt(j) \notin DOMAIN geonames_cache }
        stop == IF misses = {} THEN Len(coords) + 1
                ELSE CHOOSE j \in misses : \A k \in misses : j <= k
        hits == { KeyAt(j) : j \in i..(stop - 1) }
    IN  [ idx |-> stop,
          elevation_cache |->
              [ key \in (DOMAIN elevation_cache) \cup hits |->
                  IF key \in hits THEN geonames_cache[key] ELSE elevation_cache[key] ] ]

\* A variant of the cache write that leaves the summary for a later step.
CacheWriteWithoutSummary(scored_reports, clusters, summary, now) ==
    /\ _cached_priorities' = scored_reports
    /\ _cached_clusters' = clusters
    /\ _cached_summary' = _cached_summary
    /\ _last_analysis' = now
    /\ written_by' = [written_by EXCEPT !.priorities = now, !.clusters = now]

\* A cache write that is skipped when there is nothing to report.
CacheWriteUnlessEmpty(scored_reports, clusters, summary, now) ==
    IF scored_reports = << >>
    THEN UNCHANGED << _cached_priorities, _cached_clusters, _cached_summary,
                      _last_analysis, written_by >>
    ELSE /\ _cached_priorities' = scored_reports
         /\ _cached_clusters' = clusters
         /\ _cached_summary' = summary
         /\ _last_analysis' = now
         /\ written_by' = [priorities |-> now, clusters |-> now, summary |-> now]

\* "Cache results" (intel_engine.py 70-74): four assignments with no await
\* between them, so one step of the event loop.
CacheWrite(scored_reports, clusters, summary, now) ==
    /\ _cached_priorities' = scored_reports
    /\ _cached_clusters' = clusters
    /\ _cached_summary' = summary
    /\ _last_analysis' = now
    /\ written_by' = [priorities |-> now, clusters |-> now, summary |-> now]

\* Steps 3 (after the elevation pre-fetch) to 5 and the cache write
\* (intel_engine.py 62-86): no suspension point from here to the return.
Finish(t, reports, weather_data, elevation_cache, fetch_failed) ==
    LET scored_reports == ScoreAndSort(reports, weather_data, elevation_cache)
        clusters == _detect_clusters(scored_reports)
        summary == _generate_summary(scored_reports, clusters, weather_data, clock)
    IN  /\ CacheWrite(scored_reports, clusters, summary, clock)
        /\ clock' = clock + 1
        /\ pc' = [pc EXCEPT ![t] = "done"]
        /\ local' = [local EXCEPT ![t] =
                        [IdleLocal EXCEPT !.reports = reports,
                                          !.fetch_failed = fetch_failed]]

\* run_analysis from the return of fetch_sos_reports to its next suspension
\* point (intel_engine.py 56-62, 96-117).
AfterFetch(t, reports, fetch_failed, geonames_cache) ==
    LET weather_data == get_all_weather(weather_cache)
        coords == CoordsToFetch(reports)
        adv == SkipCached(coords, 1, EmptyDict, geonames_cache)
    IN  IF adv.idx > Len(coords)
        THEN Finish(t, reports, weather_data, adv.elevation_cache, fetch_failed)
        ELSE /\ pc' = [pc EXCEPT ![t] = "elev"]
             /\ local' = [local EXCEPT ![t] =
                             [ reports |-> reports, weather_data |-> weather_data,
                               coords_to_fetch |-> coords, idx |-> adv.idx,
                               elevation_cache |-> adv.elevation_cache,
                               fetch_failed |-> fetch_failed ]]
             /\ UNCHANGED << cacheVars, written_by, clock >>

\* A caller enters run_analysis() and suspends in the GET of
\* fetch_sos_reports (intel_engine.py 48-56, sos_fetcher.py 29-33).
Start(t) ==
    /\ pc[t] \in {"idle", "done", "cancelled"}
    /\ runs_started < MaxRuns
    /\ runs_started' = runs_started + 1
    /\ pc' = [pc EXCEPT ![t] = "fetch"]
    /\ local' = [local EXCEPT ![t] = IdleLocal]
    /\ returned' = NothingReturned
    /\ UNCHANGED << sos_cache, sos_last_fetch, _elevation_cache, weather_cache,
                    cacheVars, clock, written_by >>
    /\ UNCHANGED << scoreVars, clusterVars, summaryVars, refreshVars >>

\* The SOS API answers: normalize, merge, return the whole cache
\* (sos_fetcher.py 34-43), and run_analysis goes on.
FetchOk(t, data) ==
    /\ pc[t] = "fetch"
    /\ sos_cache' = _merge_reports(sos_cache, _normalize_reports(data))
    /\ sos_last_fetch' = clock
    /\ AfterFetch(t, sos_cache', FALSE, _elevation_cache)
    /\ returned' = NothingReturned
    /\ UNCHANGED << _elevation_cache, weather_cache, runs_started >>
    /\ UNCHANGED << scoreVars, clusterVars, summaryVars, refreshVars >>

\* The request fails: the exception is logged and the cached reports are
\* returned (sos_fetcher.py 45-47), and run_analysis goes on.
FetchFail(t) ==
    /\ pc[t] = "fetch"
    /\ AfterFetch(t, sos_cache, TRUE, _elevation_cache)
    /\ returned' = NothingReturned
    /\ UNCHANGED << sos_cache, sos_last_fetch, _elevation_cache, weather_cache,
                    runs_started >>
    /\ UNCHANGED << scoreVars, clusterVars, summaryVars, refreshVars >>

\* GeoNames answers the lookup run_analysis is suspended in (geonames.py
\* 34-57, intel_engine.py 114-115), and the loop goes on.
ElevReply(t, elevation) ==
    /\ pc[t] = "elev"
    /\ LET l == local[t]
           c == l.coords_to_fetch[l.idx]
           key == CacheKey(c[1], c[2])
           geonames_cache == IF elevation # NoneNum
                             THEN DictPut(_elevation_cache, key, elevation)
                             ELSE _elevation_cache
           adv == SkipCached(l.coords_to_fetch, l.idx + 1,
                             DictPut(l.elevation_cache, key, elevation),
                             geonames_cache)
       IN  /\ _elevation_cache' = geonames_cache
           /\ IF adv.idx > Len(l.coords_to_fetch)
              THEN Finish(t, l.reports, l.weather_data, adv.elevation_cache,
                          l.fetch_failed)
              ELSE /\ local' = [local EXCEPT ![t].idx = adv.idx,
                                             ![t].elevation_cache = adv.elevation_cache]
                   /\ UNCHANGED << pc, cacheVars, written_by, clock >>
    /\ returned' = NothingReturned
    /\ UNCHANGED << sos_cache, sos_last_fetch, weather_cache, runs_started >>
    /\ UNCHANGED << scoreVars, clusterVars, summaryVars, refreshVars >>

\* A cancelled run that stores what it has scored so far on its way out.
CancelFlush(t) ==
    /\ _cached_priorities' = ScoreAndSort(local[t].reports, local[t].weather_data,
                                          local[t].elevation_cache)
    /\ UNCHANGED << _cached_clusters, _cached_summary, _last_analysis, written_by >>

\* What a cancelled run_analysis() does to the engine's fields: CancelledError
\* is raised at the await, passes the `except Exception` handlers
\* (sos_fetcher.py 45, geonames.py 54, intel_engine.py 116) and leaves
\* run_analysis before any of its assignments (intel_engine.py 71-74).
CancelEffect(t) ==
    UNCHANGED << _cached_priorities, _cached_clusters, _cached_summary,
                 _last_analysis, written_by >>

\* The caller cancels or times out the run at the await it is suspended in.
Cancel(t) ==
    /\ pc[t] \in {"fetch", "elev"}
    /\ pc' = [pc EXCEPT ![t] = "cancelled"]
    \* idx is kept: 0 for a run cancelled in the report fetch, else the lookup
    /\ local' = [local EXCEPT ![t] = [IdleLocal EXCEPT !.idx = local[t].idx]]
    /\ CancelEffect(t)
    /\ returned' = NothingReturned
    /\ UNCHANGED << sos_cache, sos_last_fetch, _elevation_cache, weather_cache,
                    clock, runs_started >>
    /\ UNCHANGED << scoreVars, clusterVars, summaryVars, refreshVars >>

\* ------------------------------------------------------- read accessors
\* s[:limit]
SliceTo(s, limit) ==
    IF limit >= 0 THEN SubSeq(s, 1, Min(limit, Len(s)))
    ELSE SubSeq(s, 1, IF Len(s) + limit > 0 THEN Len(s) + limit ELSE 0)

\* An accessor that starts an analysis when it finds the cache empty.
ReadTriggersRun ==
    /\ pc' = IF _cached_priorities = << >> /\ pc["refresh"] = "idle"
             THEN [pc EXCEPT !["refresh"] = "fetch"] ELSE pc
    /\ UNCHANGED << sos_cache, sos_last_fetch, _elevation_cache, weather_cache,
                    cacheVars, local, clock, runs_started, written_by >>
    /\ UNCHANGED << scoreVars, clusterVars, summaryVars, refreshVars >>

\* The accessors assign nothing and await nothing (intel_engine.py 460-495).
ReadOnly ==
    /\ UNCHANGED << sos_cache, sos_last_fetch, _elevation_cache, weather_cache,
                    cacheVars, pc, local, clock, runs_started, written_by >>
    /\ UNCHANGED << scoreVars, clusterVars, summaryVars, refreshVars >>

\* get_priorities (intel_engine.py 460-462)
get_priorities(limit) == SliceTo(_cached_priorities, limit)

\* get_clusters (intel_engine.py 464-466)
get_clusters == _cached_clusters

\* get_summary (intel_engine.py 468-470)
get_summary == _cached_summary

\* self._cached_summary.get("districts", {}).get(district, {})
SummarySlice(summary, district) ==
    IF summary = EmptyDict THEN EmptyDict
    ELSE LET hit == {i \in 1..Len(summary.districts) :
                        summary.districts[i].district = district}
         IN  IF hit = {} THEN EmptyDict
             ELSE summary.districts[CHOOSE i \in hit : TRUE]

\* get_district_intel (intel_engine.py 472-495)
get_district_intel(district) ==
    LET district_lower == Lower(district)
        reports == SelectSeq(_cached_priorities,
                       LAMBDA r : Lower(OrStr(r.district, "")) = district_lower)
        clusters == SelectSeq(_cached_clusters,
                       LAMBDA c : district_lower \in
                                     {Lower(OrStr(d, "")) : d \in c.districts})
    IN  [ district |-> district,
          reports |-> reports,
          clusters |-> clusters,
          summary |-> SummarySlice(_cached_summary, district),
          report_count |-> Len(reports),
          total_people |-> SumSeq(MapSeq(reports, PeopleOf)) ]

\* The limits and districts the callers ask for.
Limits == {1}
AskedDistricts == {"Colombo", "colombo"}

GetPriorities(limit) ==
    /\ returned' = [op |-> "get_priorities", limit |-> limit,
                    value |-> get_priorities(limit)]
    /\ ReadOnly

GetClusters ==
    /\ returned' = [op |-> "get_clusters", value |-> get_clusters]
    /\ ReadOnly

GetSummary ==
    /\ returned' = [op |-> "get_summary", value |-> get_summary]
    /\ ReadOnly

GetDistrictIntel(district) ==
    /\ returned' = [op |-> "get_district_intel", value |-> get_district_intel(district)]
    /\ ReadOnly

\* ------------------------------------------------------------ the engine
Init == EngineInit /\ ScoreOff /\ ClusterOff /\ SummaryOff

Next ==
    \/ \E t \in Tasks : Start(t)
    \/ \E t \in Tasks, data \in ApiResponses : FetchOk(t, data)
    \/ \E t \in Tasks : FetchFail(t)
    \/ \E t \in Tasks, elevation \in ElevationOutcomes : ElevReply(t, elevation)
    \/ \E t \in Tasks : Cancel(t)
    \/ \E limit \in Limits : GetPriorities(limit)
    \/ GetClusters
    \/ GetSummary
    \/ \E district \in AskedDistricts : GetDistrictIntel(district)

Spec == Init /\ [][Next]_vars

\* ------------------------------------------- the scoring function alone
\* A normalized report (the fields of NormalizeItem) for the scoring inputs.
Report(id, district, lat, lng, water, people, vulnerable, safe, supplied, battery) ==
    [ id |-> id, district |-> district, latitude |-> lat, longitude |-> lng,
      number_of_people |-> people, water_level |-> water, safe_for_hours |-> safe,
      has_children |-> vulnerable[4], has_elderly |-> vulnerable[3],
      has_disabled |-> vulnerable[2], has_medical_emergency |-> vulnerable[1],
      has_food |-> supplied[1], has_water |-> supplied[2], has_power |-> FALSE,
      battery_percent |-> battery ]

\* The reports the scoring function is applied to: every combination of the
\* values below (number_of_people is whatever int() made of the upstream
\* value, a negative number included; sos_fetcher.py 93).
ScoreInputs ==
    { [ Report(1, "Colombo", lat, Longitude0, water, people, vulnerable, safe,
               supplied, power[2]) EXCEPT !.has_power = power[1] ] :
        lat \in {NoneNum, Latitude0},
        water \in {"ROOF", "chest", "ANKLE", NoneStr},
        people \in {-50, 0, 1, 4, 9, 10, 12},
        vulnerable \in { <<FALSE, FALSE, FALSE, FALSE>>, <<TRUE, FALSE, FALSE, FALSE>>,
                         <<TRUE, TRUE, FALSE, FALSE>>, <<TRUE, TRUE, TRUE, TRUE>> },
        safe \in {NoneNum, 5, 50},
        supplied \in { <<TRUE, TRUE>>, <<TRUE, FALSE>>, <<FALSE, FALSE>> },
        \* (has_power, battery_percent)
        power \in { <<FALSE, 10>>, <<FALSE, 50>>, <<TRUE, 10>> } }

\* The weather records and the elevation the pre-fetch resolved for the
\* report's coordinates (MissingNum: no entry in the elevation cache).
ScoreWeathers ==
    { << >>,
      << [district |-> "COLOMBO", forecast_precip_24h_mm |-> 120,
          alert_level |-> "red"] >> }
ScoreElevations == {MissingNum, NoneNum, 3, 120}

InitScore ==
    /\ EngineInit /\ ClusterOff /\ SummaryOff
    /\ score_pc = "input"
    /\ score_reports \in {<<r>> : r \in ScoreInputs}
    /\ score_weather \in ScoreWeathers
    /\ score_elev \in { IF e = MissingNum THEN EmptyDict
                        ELSE DictPut(EmptyDict, CacheKey(Latitude0, Longitude0), e) :
                        e \in ScoreElevations }
    /\ score_out = << >>

ScoreStep ==
    /\ score_pc = "input"
    /\ score_out' = ScoreAndSort(score_reports, score_weather, score_elev)
    /\ score_pc' = "scored"
    /\ UNCHANGED << score_reports, score_weather, score_elev >>
    /\ UNCHANGED << engineVars, clusterVars, summaryVars, refreshVars >>

NextScore == ScoreStep

SpecScore == InitScore /\ [][NextScore]_vars

\* The scoring function on the reports whose factors are then varied one at
\* a time: the least and the most urgent value of each factor.
SweepInputs ==
    { Report(1, "Colombo", lat, Longitude0, water, people, vulnerable, safe,
             supplied, 50) :
        lat \in {NoneNum, Latitude0},
        water \in {"ROOF", "ANKLE"},
        people \in {1, 12},
        vulnerable \in { <<FALSE, FALSE, FALSE, FALSE>>, <<TRUE, TRUE, TRUE, TRUE>> },
        safe \in {NoneNum, 5},
        supplied \in { <<TRUE, TRUE>>, <<FALSE, FALSE>> } }

InitSweep ==
    /\ EngineInit /\ ClusterOff /\ SummaryOff
    /\ score_pc = "input"
    /\ score_reports \in {<<r>> : r \in SweepInputs}
    /\ score_weather \in ScoreWeathers
    /\ score_elev \in { IF e = MissingNum THEN EmptyDict
                        ELSE DictPut(EmptyDict, CacheKey(Latitude0, Longitude0), e) :
                        e \in ScoreElevations }
    /\ score_out = << >>

SpecSweep == InitSweep /\ [][NextScore]_vars

\* The scoring function on the edges of its buckets: safe_for_hours in tenths
\* of an hour (None: absent) and the forecast rain of the district's weather
\* record in mm (None: the record has no forecast).
SafeHours == {NoneNum, -30, 0, 5, 10, 11, 30, 31, 60, 61, 120, 121, 500}
ForecastRains == {NoneNum, 0, 25, 26, 50, 51, 100, 101, 120}

BucketInputs ==
    { Report(1, district, NoneNum, NoneNum, water, 1,
             <<FALSE, FALSE, FALSE, FALSE>>, safe, <<TRUE, TRUE>>, 50) :
        district \in {"Colombo", "colombo", "Galle", NoneStr},
        water \in {"ROOF", "ANKLE"},
        safe \in SafeHours }

BucketWeathers ==
    { << >> } \cup
    { << [district |-> "COLOMBO", forecast_precip_24h_mm |-> rain,
          alert_level |-> "green"] >> : rain \in ForecastRains }

InitBuckets ==
    /\ EngineInit /\ ClusterOff /\ SummaryOff
    /\ score_pc = "input"
    /\ score_reports \in {<<r>> : r \in BucketInputs}
    /\ score_weather \in BucketWeathers
    /\ score_elev = EmptyDict
    /\ score_out = << >>

SpecBuckets == InitBuckets /\ [][NextScore]_vars

\* ---------------------------------------------- the cluster builder alone
\* The reports the analysed set is drawn from: on one meridian, 1.9 km north
\* and south of Latitude0 and 50 km away, and without coordinates.
ClusterLatitudes == {NoneNum, Latitude0, Latitude0 + 17, Latitude0 - 17, Latitude0 + 450}
\* (latitude, longitude) of a report: the latitudes above on the meridian
\* Longitude0, and a latitude whose longitude the API did not give
\* (sos_fetcher.py 89-90 parse the two separately).
ClusterPositions ==
    { <<lat, IF lat = NoneNum THEN NoneNum ELSE Longitude0>> : lat \in ClusterLatitudes }
        \cup { <<Latitude0, NoneNum>> }
\* District, water level and people count of a report (the water level sets
\* its score; a people count the API gave as null is 0, sos_fetcher.py 93).
ClusterProfiles == { <<"Galle", "ROOF", 1>>, <<"Galle", "ANKLE", 1>>, <<NoneStr, "ANKLE", 0>> }

ClusterReport(id, position, profile) ==
    Report(id, profile[1], position[1], position[2], profile[2], profile[3],
           <<FALSE, FALSE, FALSE, FALSE>>, NoneNum, <<TRUE, TRUE>>, 50)

\* Lists of n reports with the ids 1..n.
ClusterInputs(n) ==
    { [i \in 1..n |-> ClusterReport(i, pick[i][1], pick[i][2])] :
        pick \in [1..n -> ClusterPositions \X ClusterProfiles] }

\* _detect_clusters is handed the output of _compute_priorities
\* (intel_engine.py 62-65): scored, and sorted by score.
InitCluster ==
    /\ EngineInit /\ ScoreOff /\ SummaryOff
    /\ cluster_pc = "input"
    /\ \E n \in 0..MaxClusterReports :
          cluster_in \in { ScoreAndSort(raw, << >>, EmptyDict) : raw \in ClusterInputs(n) }
    /\ cluster_out = << >>

DetectStep ==
    /\ cluster_pc = "input"
    /\ cluster_out' = _detect_clusters(cluster_in)
    /\ cluster_pc' = "clustered"
    /\ UNCHANGED cluster_in
    /\ UNCHANGED << engineVars, scoreVars, summaryVars, refreshVars >>

NextCluster == DetectStep

SpecCluster == InitCluster /\ [][NextCluster]_vars

\* ------------------------------------------ the summary aggregator alone
\* Districts with one report each.
DistrictNames ==
    << "ampara", "badulla", "batticaloa", "galle", "gampaha", "hambantota",
       "jaffna", "kalutara", "kandy", "kegalle", "kurunegala", "matale", "matara" >>

\* A report of a district with a low score (ANKLE, one person).
SummaryBaseReport(id, district) ==
    Report(id, district, NoneNum, NoneNum, "ANKLE", 1,
           <<FALSE, FALSE, FALSE, FALSE>>, NoneNum, <<TRUE, TRUE>>, 50)

\* The further reports: of a district that has a report already, of one that
\* has a weather record, and with a null, an empty and an "Unknown" district
\* (sos_fetcher.py 88 passes null and "" through); scored 7 (LOW),
\* 30 (MEDIUM), 65 (HIGH) and 73 (CRITICAL) before the weather escalation.
SummaryExtraDistricts == {"ampara", "Colombo", NoneStr, "", "Unknown"}
SummaryExtraProfiles ==
    { <<"ANKLE", 2, FALSE, TRUE>>, <<"CHEST", 5, FALSE, TRUE>>,
      <<"ROOF", 12, TRUE, TRUE>>, <<"ROOF", 12, TRUE, FALSE>> }

SummaryExtraReport(id, district, profile) ==
    Report(id, district, NoneNum, NoneNum, profile[1], profile[2],
           <<profile[3], FALSE, FALSE, FALSE>>, NoneNum, <<profile[4], profile[4]>>, 50)

\* m districts with one report each, followed by k further reports.
SummaryInputs(m, k) ==
    { [i \in 1..(m + k) |->
          IF i <= m THEN SummaryBaseReport(i, DistrictNames[i])
          ELSE SummaryExtraReport(i, pick[i - m][1], pick[i - m][2])] :
        pick \in [1..k -> SummaryExtraDistricts \X SummaryExtraProfiles] }

\* The weather records handed to the aggregator.
SummaryWeather ==
    << [district |-> "COLOMBO", forecast_precip_24h_mm |-> 120, alert_level |-> "red"] >>

\* _generate_summary is handed the output of _compute_priorities
\* (intel_engine.py 62-68): scored, and sorted by score.
InitSummary ==
    /\ EngineInit /\ ScoreOff /\ ClusterOff
    /\ summary_pc = "input"
    /\ \E m \in {0, MaxSummaryDistricts - 1, MaxSummaryDistricts},
          k \in 0..MaxSummaryExtras :
          summary_in \in { ScoreAndSort(raw, SummaryWeather, EmptyDict) :
                             raw \in SummaryInputs(m, k) }
    /\ summary_out = EmptyDict

SummaryStep ==
    /\ summary_pc = "input"
    /\ summary_out' = _generate_summary(summary_in, _detect_clusters(summary_in),
                                        SummaryWeather, clock)
    /\ summary_pc' = "summarized"
    /\ UNCHANGED summary_in
    /\ UNCHANGED << engineVars, scoreVars, clusterVars, refreshVars >>

NextSummary == SummaryStep

SpecSummary == InitSummary /\ [][NextSummary]_vars

\* ------------------------------------------- the scoring function on lists
\* _compute_priorities on lists of up to MaxClusterReports reports, in every
\* input order, with equal and with different scores (no weather record, no
\* elevation resolved).
InitRank ==
    /\ EngineInit /\ ClusterOff /\ SummaryOff
    /\ score_pc = "input"
    /\ \E n \in 0..MaxClusterReports : score_reports \in ClusterInputs(n)
    /\ score_weather = << >>
    /\ score_elev = EmptyDict
    /\ score_out = << >>

SpecRank == InitRank /\ [][NextScore]_vars

\* ------------------------------------- the elevation pre-fetch on a long list
\* Two SOS API bodies that together hold more coordinates than a run looks
\* up: report 1 in one cell of the GeoNames cache (0.01 degree), the others
\* together in the next cell.
BulkItem(i) ==
    RawItem(i, "Colombo", IF i = 1 THEN Latitude0 + 17 ELSE Latitude0,
            1, "ANKLE", MissingNum, "false", "true")

BulkResponses ==
    { [i \in 1..MaxBulkReports |-> BulkItem(i)],
      [i \in 1..MaxBulkReports |-> BulkItem(MaxBulkReports + i)] }

\* The scheduled job alone (scheduler.py 59-70).
NextElev ==
    \/ Start("scheduler")
    \/ \E data \in BulkResponses : FetchOk("scheduler", data)
    \/ FetchFail("scheduler")
    \/ \E elevation \in ElevationOutcomes : ElevReply("scheduler", elevation)

SpecElev == Init /\ [][NextElev]_vars

\* ------------------------------------------- WeatherCache.refresh_cache
\* get_all_districts() (districts_service.py 17-20), by name.
Districts == << "Colombo", "Galle" >>

\* What Open-Meteo answers for a district.
WeatherReadings ==
    { [rainfall_24h_mm |-> 60, forecast_precip_24h_mm |-> 30] }

\* The scheduled job and POST /refresh force the refresh; the read handlers
\* call refresh_cache() with the default force=False.
ForceOf(t) == IF t = "job" THEN {TRUE} ELSE BOOLEAN

\* Lines 131-139 and the release of the lock: the whole cache is replaced by
\* new_cache when a fetch succeeded, and is left alone otherwise.
Complete(t, l) ==
    /\ IF ShouldReplace(l.success_count)
       THEN /\ weather_cache' = l.new_cache
            /\ weather_last_update' = wall_clock
            /\ refresh_local' = [refresh_local EXCEPT ![t] = [l EXCEPT !.result = "True"]]
       ELSE /\ UNCHANGED << weather_cache, weather_last_update >>
            /\ refresh_local' = [refresh_local EXCEPT ![t] = [l EXCEPT !.result = "False"]]
    /\ weather_lock' = "free"
    /\ refresh_pc' = [refresh_pc EXCEPT ![t] = "done"]

\* The head of the loop of line 104, after the district at l.idx is dealt
\* with: t holds the lock while the next get_weather() is awaited.
NextDistrict(t, l) ==
    IF l.idx >= Len(Districts)
    THEN Complete(t, l)
    ELSE /\ refresh_local' = [refresh_local EXCEPT ![t] = [l EXCEPT !.idx = l.idx + 1]]
         /\ refresh_pc' = [refresh_pc EXCEPT ![t] = "fetch"]
         /\ weather_lock' = t
         /\ UNCHANGED << weather_cache, weather_last_update >>

\* Lines 93-107 once the lock is free: the early return of line 97, or the
\* lock is held while the first get_weather() is awaited.
Enter(t, l) ==
    IF ~l.force /\ is_cache_valid(weather_cache, weather_last_update, wall_clock)
    THEN /\ refresh_local' = [refresh_local EXCEPT ![t] = [l EXCEPT !.result = "True"]]
         /\ refresh_pc' = [refresh_pc EXCEPT ![t] = "done"]
         /\ UNCHANGED << weather_cache, weather_last_update, weather_lock >>
    ELSE NextDistrict(t, l)

\* refresh_cache(force) is called: it runs up to its first await.
RefreshCall(t, force) ==
    /\ refresh_pc[t] \in {"idle", "done"}
    /\ refreshes_started < MaxRefreshes
    /\ refreshes_started' = refreshes_started + 1
    /\ LET l == [IdleRefresh EXCEPT !.call = refreshes_started + 1,
                                    !.force = force]
       IN  IF weather_lock = "free"
           THEN Enter(t, l)
           ELSE /\ refresh_pc' = [refresh_pc EXCEPT ![t] = "waiting"]
                /\ refresh_local' = [refresh_local EXCEPT ![t] = l]
                /\ UNCHANGED << weather_cache, weather_last_update, weather_lock >>
    /\ UNCHANGED << wall_clock, engineButWeather, scoreVars, clusterVars, summaryVars >>

\* A call waiting in `async with self._lock` gets the lock.
LockAcquired(t) ==
    /\ refresh_pc[t] = "waiting"
    /\ weather_lock = "free"
    /\ Enter(t, refresh_local[t])
    /\ UNCHANGED << wall_clock, refreshes_started, engineButWeather, scoreVars,
                    clusterVars, summaryVars >>

\* get_weather() returns (lines 113-123): the entry is stored and the call
\* sleeps.
WeatherReply(t, reading) ==
    /\ refresh_pc[t] = "fetch"
    /\ LET l == refresh_local[t]
           entry == [ district |-> Districts[l.idx],
                      rainfall_24h_mm |-> reading.rainfall_24h_mm,
                      forecast_precip_24h_mm |-> reading.forecast_precip_24h_mm,
                      fetched_at |-> wall_clock ]
       IN  refresh_local' = [refresh_local EXCEPT ![t] =
               [l EXCEPT !.new_cache = SetEntry(l.new_cache, entry),
                         !.success_count = l.success_count + 1]]
    /\ refresh_pc' = [refresh_pc EXCEPT ![t] = "sleep"]
    /\ UNCHANGED << weather_cache, weather_last_update, weather_lock, wall_clock,
                    refreshes_started, engineButWeather, scoreVars, clusterVars,
                    summaryVars >>

\* get_weather() raises (lines 125-129): the old entry is kept if there is one.
WeatherError(t) ==
    /\ refresh_pc[t] = "fetch"
    /\ LET l == refresh_local[t]
           name == Districts[l.idx]
           kept == IF HasEntry(weather_cache, name)
                   THEN SetEntry(l.new_cache, EntryFor(weather_cache, name))
                   ELSE l.new_cache
       IN  NextDistrict(t, [l EXCEPT !.new_cache = kept,
                                     !.failed = l.failed \cup {name}])
    /\ UNCHANGED << wall_clock, refreshes_started, engineButWeather, scoreVars,
                    clusterVars, summaryVars >>

\* asyncio.sleep(0.1) of line 123 is over.
SleepDone(t) ==
    /\ refresh_pc[t] = "sleep"
    /\ NextDistrict(t, refresh_local[t])
    /\ UNCHANGED << wall_clock, refreshes_started, engineButWeather, scoreVars,
                    clusterVars, summaryVars >>

\* A quarter of an hour passes.
Tick ==
    /\ wall_clock + 15 <= MaxMinutes
    /\ wall_clock' = wall_clock + 15
    /\ UNCHANGED << weather_cache, weather_last_update, weather_lock, refresh_pc,
                    refresh_local, refreshes_started, engineButWeather,
                    scoreVars, clusterVars, summaryVars >>

\* __init__ (lines 29-34): nothing on disk, or the cache file of an earlier
\* process.
InitRefresh ==
    /\ EngineStart /\ ScoreOff /\ ClusterOff /\ SummaryOff
    /\ \/ weather_cache = << >> /\ weather_last_update = NoneNum
       \/ weather_cache \in WeatherCaches /\ weather_last_update = 0
    /\ weather_lock = "free"
    /\ refresh_pc = [t \in Refreshers |-> "idle"]
    /\ refresh_local = [t \in Refreshers |-> IdleRefresh]
    /\ wall_clock = 0
    /\ refreshes_started = 0

NextRefresh ==
    \/ \E t \in Refreshers : \E force \in ForceOf(t) : RefreshCall(t, force)
    \/ \E t \in Refreshers : LockAcquired(t)
    \/ \E t \in Refreshers : \E reading \in WeatherReadings : WeatherReply(t, reading)
    \/ \E t \in Refreshers : WeatherError(t)
    \/ \E t \in Refreshers : SleepDone(t)
    \/ Tick

SpecRefresh == InitRefresh /\ [][NextRefresh]_vars

\* ----------------------------------------------------------------- claims
\* C1: every report scored by _compute_priorities has
\* 0 <= urgency_score <= 100.
C1_ScoreInRange ==
    score_pc = "scored" =>
        \A i \in 1..Len(score_out) :
            score_out[i].urgency_score >= 0 /\ score_out[i].urgency_score <= 100

\* The member ids of all the clusters, list after list.
RECURSIVE MemberIds(_)
MemberIds(clusters) ==
    IF clusters = << >> THEN << >>
    ELSE Head(clusters).reports \o MemberIds(Tail(clusters))

\* C2: every report handed to _detect_clusters is a member of at least one
\* of the clusters it returns (a report without coordinates included, when
\* other reports of the set have coordinates).
C2_NoOmissions ==
    cluster_pc = "clustered" =>
        \A i \in 1..Len(cluster_in) :
            cluster_in[i].id \in Range(MemberIds(cluster_out))

\* C3: with distinct report ids, no id is listed twice, in one cluster or in
\* two, on the geographic path and on the district path.
C3_NoOverlaps ==
    cluster_pc = "clustered" =>
        LET ids == MemberIds(cluster_out)
        IN  \A a, b \in 1..Len(ids) : a # b => ids[a] # ids[b]

\* C3 witness: the geographic path returned two clusters, one of them with an
\* absorbed member.
C3_Witness ==
    /\ cluster_pc = "clustered"
    /\ Len(cluster_out) >= 2
    /\ \E i \in 1..Len(cluster_out) :
          /\ cluster_out[i].report_count >= 2
          /\ cluster_out[i].centroid.latitude # NoneNum

\* C4: in every state (so whenever an accessor reads, also while runs are in
\* progress) the cached ranked reports, clusters and summary were written by
\* one and the same publication, and are that run's clusters and summary of
\* the cached ranked reports.
C4_CacheFromOneRun ==
    /\ written_by.priorities = written_by.clusters
    /\ written_by.clusters = written_by.summary
    /\ IF _last_analysis = NoneNum
       THEN /\ _cached_priorities = << >>
            /\ _cached_clusters = << >>
            /\ _cached_summary = EmptyDict
       ELSE /\ written_by.summary = _last_analysis
            /\ _cached_clusters = _detect_clusters(_cached_priorities)
            /\ _cached_summary =
                   _generate_summary(_cached_priorities, _cached_clusters,
                                     get_all_weather(weather_cache), _last_analysis)

\* C4 witness: an accessor returns a published snapshot while a run is
\* suspended in an elevation lookup.
C4_Witness ==
    /\ returned.op = "get_summary"
    /\ _last_analysis # NoneNum
    /\ _cached_priorities # << >>
    /\ \E t \in Tasks : pc[t] = "elev"

\* C5: a run_analysis() whose report fetch failed does not return normally
\* with a publication: the failure reaches its caller and the cache is left
\* as it was.
C5_FetchFailureSurfaced ==
    \A t \in Tasks : ~(pc[t] = "done" /\ local[t].fetch_failed)

\* C6: at most one run_analysis() is between the return of its report fetch
\* and its cache publication.
C6_SingleFlight ==
    Cardinality({t \in Tasks : pc[t] = "elev"}) <= 1

\* C7: a step that cancels a run suspended in the report fetch or in an
\* elevation lookup leaves the cached ranked reports, clusters, summary and
\* last-analysis timestamp as they were.
C7_CancelKeepsCache ==
    [][ (\E t \in Tasks : pc[t] \in {"fetch", "elev"} /\ pc'[t] = "cancelled")
        => UNCHANGED cacheVars ]_vars

\* C7 witness: a run was cancelled in an elevation lookup while a published
\* snapshot was cached.
C7_Witness ==
    /\ \E t \in Tasks : pc[t] = "cancelled" /\ local[t].idx >= 1
    /\ _last_analysis # NoneNum
    /\ _cached_priorities # << >>

\* C8: a call of a read accessor returns data of the cached snapshot (the
\* one the latest publication wrote), starts no run and leaves the cache as
\* it was.
C8_AccessorsReadOnly ==
    [][ returned'.op # "none" =>
          /\ UNCHANGED << cacheVars, pc, runs_started, sos_cache >>
          /\ written_by.priorities = (IF _last_analysis = NoneNum THEN 0 ELSE _last_analysis)
          /\ returned'.op = "get_priorities" =>
                /\ Len(returned'.value) = Min(returned'.limit, Len(_cached_priorities))
                /\ \A i \in 1..Len(returned'.value) :
                      returned'.value[i] = _cached_priorities[i]
          /\ returned'.op = "get_clusters" => returned'.value = _cached_clusters
          /\ returned'.op = "get_summary" => returned'.value = _cached_summary
          /\ returned'.op = "get_district_intel" =>
                /\ Range(returned'.value.reports) \subseteq Range(_cached_priorities)
                /\ Range(returned'.value.clusters) \subseteq Range(_cached_clusters)
                /\ \/ returned'.value.summary = EmptyDict
                   \/ returned'.value.summary \in Range(_cached_summary.districts)
      ]_vars

\* C8 witness: get_district_intel returned reports of the snapshot while a
\* run was in progress.
C8_Witness ==
    /\ returned.op = "get_district_intel"
    /\ returned.value.reports # << >>
    /\ \E t \in Tasks : pc[t] \in {"fetch", "elev"}

\* A summary all of whose counts are zero.
SummaryAllZero(summary) ==
    /\ summary # EmptyDict
    /\ summary.total_reports = 0
    /\ summary.total_people_affected = 0
    /\ summary.total_clusters = 0
    /\ \A k \in DOMAIN summary.urgency_breakdown : summary.urgency_breakdown[k] = 0
    /\ \A k \in DOMAIN summary.resource_needs : summary.resource_needs[k] = 0
    /\ \A k \in DOMAIN summary.vulnerability_counts : summary.vulnerability_counts[k] = 0
    /\ summary.most_affected_districts = << >>
    /\ summary.districts = << >>

\* C9: a run_analysis() that the report source hands zero reports returns
\* normally, and publishes an empty ranked list, an empty cluster list and a
\* summary with all counts zero.
C9_EmptyInput ==
    [][ \A t \in Tasks :
          /\ (pc[t] = "fetch" /\ pc'[t] \notin {"fetch", "cancelled"} /\ sos_cache' = << >>)
                => pc'[t] = "done" /\ local'[t].reports = << >>
          /\ (pc[t] # "done" /\ pc'[t] = "done" /\ local'[t].reports = << >>)
                => /\ _cached_priorities' = << >>
                   /\ _cached_clusters' = << >>
                   /\ SummaryAllZero(_cached_summary')
      ]_vars

\* C9 witness: a run has returned from zero reports and its summary is cached.
C9_Witness ==
    /\ \E t \in Tasks : pc[t] = "done" /\ local[t].reports = << >>
    /\ _cached_summary # EmptyDict
    /\ _cached_summary.total_reports = 0

\* C10: the tier follows the capped score with lower-inclusive thresholds:
\* >= 70 CRITICAL, 50..69 HIGH, 30..49 MEDIUM, below 30 LOW.
C10_TierThresholds ==
    score_pc = "scored" =>
        \A i \in 1..Len(score_out) :
            LET score == score_out[i].urgency_score
                tier == score_out[i].urgency_tier
            IN  /\ score >= 70 => tier = "CRITICAL"
                /\ (score >= 50 /\ score <= 69) => tier = "HIGH"
                /\ (score >= 30 /\ score <= 49) => tier = "MEDIUM"
                /\ score < 30 => tier = "LOW"

\* C10 witness: a report scored exactly 70 is CRITICAL.
C10_Witness ==
    /\ score_pc = "scored"
    /\ \E i \in 1..Len(score_out) :
          score_out[i].urgency_score = 70 /\ score_out[i].urgency_tier = "CRITICAL"

\* The weather record the district of a report matches without regard to
\* letter case (the last one, when several match), as a sequence of 0 or 1.
MatchingWeather(report, weather_data) ==
    LET hits == {i \in 1..Len(weather_data) :
                    Lower(OrStr(weather_data[i].district, "")) =
                    Lower(OrStr(report.district, ""))}
    IN  IF hits = {} THEN << >>
        ELSE << weather_data[CHOOSE i \in hits : \A j \in hits : j <= i] >>

\* The elevation resolved for the coordinates of a report (None: unresolved).
ResolvedElevation(report, elevation_cache) ==
    IF HasCoords(report)
    THEN DictGet(elevation_cache, CacheKey(report.latitude, report.longitude))
    ELSE NoneNum

\* The seven factor values of a report as the design's scoring steps 1 to 7
\* list them (hours in tenths), in that order.
DesignFactors(report, weather_data, elevation_cache) ==
    LET water == report.water_level
        hours == report.safe_for_hours
        w == MatchingWeather(report, weather_data)
        rain == IF w = << >> THEN 0 ELSE w[1].forecast_precip_24h_mm
        elevation == ResolvedElevation(report, elevation_cache)
    IN  << CASE water = "ROOF" -> 40 [] water = "NECK" -> 35 [] water = "CHEST" -> 25
             [] water = "WAIST" -> 15 [] water = "ANKLE" -> 5 [] OTHER -> 10,
           (IF report.has_medical_emergency THEN 15 ELSE 0)
             + (IF report.has_disabled THEN 8 ELSE 0)
             + (IF report.has_elderly THEN 5 ELSE 0)
             + (IF report.has_children THEN 2 ELSE 0),
           IF hours = NoneNum THEN 0
             ELSE IF hours <= 10 THEN 20 ELSE IF hours <= 30 THEN 15
             ELSE IF hours <= 60 THEN 10 ELSE IF hours <= 120 THEN 5 ELSE 0,
           IF report.number_of_people <= 10 THEN report.number_of_people ELSE 10,
           (IF ~report.has_food THEN 3 ELSE 0)
             + (IF ~report.has_water THEN 5 ELSE 0)
             + (IF ~report.has_power /\ report.battery_percent < 20 THEN 2 ELSE 0),
           IF rain > 100 THEN 15 ELSE IF rain > 50 THEN 10 ELSE IF rain > 25 THEN 5 ELSE 0,
           IF elevation = NoneNum THEN 0
             ELSE IF elevation < 5 THEN 15 ELSE IF elevation < 15 THEN 10
             ELSE IF elevation < 50 THEN 5 ELSE IF elevation < 100 THEN 2 ELSE 0 >>

\* C11: for every report whose water level is one of the six categories or
\* unset, the final urgency score is min(100, sum of the seven factors of
\* scoring steps 1 to 7).
C11_ScoreIsCappedSum ==
    score_pc = "scored" =>
        \A i \in 1..Len(score_out) :
            LET report == score_reports[i]
                total == SumSeq(DesignFactors(report, score_weather, score_elev))
            IN  report.water_level \in {"ROOF", "NECK", "CHEST", "WAIST", "ANKLE",
                                        "UNKNOWN", NoneStr}
                  => score_out[i].urgency_score = (IF total <= 100 THEN total ELSE 100)

\* C11 witness: the report ROOF / 12 people / medical / no food / no water /
\* safe 0.5 h / 120 mm rain / 3 m elevation sums to 123 and is scored 100,
\* CRITICAL.
C11_Witness ==
    /\ score_pc = "scored"
    /\ DesignFactors(score_reports[1], score_weather, score_elev)
          = <<40, 15, 20, 10, 8, 15, 15>>
    /\ score_reports[1].number_of_people = 12
    /\ score_out[1].urgency_score = 100
    /\ score_out[1].urgency_tier = "CRITICAL"

\* The urgency score _compute_priorities gives one report.
ScoreOf(report, weather_data, elevation_cache) ==
    ScoreAndSort(<<report>>, weather_data, elevation_cache)[1].urgency_score

\* TRUE when a sequence of numbers never decreases.
NonDecreasing(s) == \A k \in 1..(Len(s) - 1) : s[k] <= s[k + 1]

\* Values of each factor, from the least to the most urgent.
WaterLevelsRising == <<"ANKLE", "WAIST", "CHEST", "NECK", "ROOF">>
SafeHoursFalling == <<130, 121, 120, 61, 60, 31, 30, 11, 10, 5, 0>>
PeopleRising == <<-50, 0, 1, 9, 10, 11, 12>>
RainRising == <<0, 25, 26, 50, 51, 100, 101, 120>>
ElevationFalling == <<120, 100, 99, 50, 49, 15, 14, 5, 4, 3, 0>>

\* The scores of the scored report with one factor stepped through its
\* values, the other factors as the report has them; one sequence per factor.
FactorSweeps(report, weather_data, elevation_cache) ==
    LET score(r) == ScoreOf(r, weather_data, elevation_cache)
    IN  << [k \in 1..Len(WaterLevelsRising) |->
               score([report EXCEPT !.water_level = WaterLevelsRising[k]])],
           <<score([report EXCEPT !.has_medical_emergency = FALSE]),
             score([report EXCEPT !.has_medical_emergency = TRUE])>>,
           <<score([report EXCEPT !.has_disabled = FALSE]),
             score([report EXCEPT !.has_disabled = TRUE])>>,
           <<score([report EXCEPT !.has_elderly = FALSE]),
             score([report EXCEPT !.has_elderly = TRUE])>>,
           <<score([report EXCEPT !.has_children = FALSE]),
             score([report EXCEPT !.has_children = TRUE])>>,
           [k \in 1..Len(SafeHoursFalling) |->
               score([report EXCEPT !.safe_for_hours = SafeHoursFalling[k]])],
           [k \in 1..Len(PeopleRising) |->
               score([report EXCEPT !.number_of_people = PeopleRising[k]])],
           <<score([report EXCEPT !.has_food = TRUE]),
             score([report EXCEPT !.has_food = FALSE])>>,
           <<score([report EXCEPT !.has_water = TRUE]),
             score([report EXCEPT !.has_water = FALSE])>>,
           [k \in 1..Len(RainRising) |->
               ScoreOf(report,
                       << [district |-> report.district,
                           forecast_precip_24h_mm |-> RainRising[k],
                           alert_level |-> "green"] >>,
                       elevation_cache)],
           [k \in 1..Len(ElevationFalling) |->
               ScoreOf(report, weather_data,
                       DictPut(EmptyDict, CacheKey(Latitude0, Longitude0),
                               ElevationFalling[k]))] >>

\* C12: with the other factors of the scored report held fixed, the score
\* never decreases when the water level rises through ANKLE, WAIST, CHEST,
\* NECK, ROOF, when a vulnerability flag is set, when safe_for_hours falls,
\* when the people count rises, when food or water is removed, when the
\* forecast rain rises, or when the elevation falls.
C12_ScoreMonotonic ==
    score_pc = "scored" =>
        LET sweeps == FactorSweeps(score_reports[1], score_weather, score_elev)
        IN  \A f \in 1..Len(sweeps) : NonDecreasing(sweeps[f])

\* C12 witness: a report scored below the cap whose score rises with the
\* water level, with the people count and with falling safe hours.
C12_Witness ==
    /\ score_pc = "scored"
    /\ score_out[1].urgency_score < 100
    /\ LET sweeps == FactorSweeps(score_reports[1], score_weather, score_elev)
       IN  /\ sweeps[1][1] < sweeps[1][5]
           /\ sweeps[6][1] < sweeps[6][11]
           /\ sweeps[7][1] < sweeps[7][7]
           /\ score_out[1].urgency_score \in Range(sweeps[7])

\* The position of the report with the given id in a list.
PositionOf(id, reports) == CHOOSE i \in 1..Len(reports) : reports[i].id = id

\* C13: the list _compute_priorities returns holds the input reports, each
\* once, in non-increasing order of urgency_score, and reports of equal score
\* are in the order the input list had them.
C13_SortedStable ==
    score_pc = "scored" =>
        /\ Len(score_out) = Len(score_reports)
        /\ {score_out[k].id : k \in 1..Len(score_out)}
              = {score_reports[k].id : k \in 1..Len(score_reports)}
        /\ \A k \in 1..(Len(score_out) - 1) :
              score_out[k].urgency_score >= score_out[k + 1].urgency_score
        /\ \A a, b \in 1..Len(score_out) :
              (a < b /\ score_out[a].urgency_score = score_out[b].urgency_score)
                => PositionOf(score_out[a].id, score_reports)
                     < PositionOf(score_out[b].id, score_reports)

\* C13 witness: three reports, the first of the input with the lowest score
\* and the other two with equal scores, returned in the order 2, 3, 1.
C13_Witness ==
    /\ score_pc = "scored"
    /\ Len(score_out) = 3
    /\ score_out[1].urgency_score = score_out[2].urgency_score
    /\ score_out[2].urgency_score > score_out[3].urgency_score
    /\ <<score_out[1].id, score_out[2].id, score_out[3].id>> = <<2, 3, 1>>

\* The report of the clustered list with the given id.
ClusteredReport(id) == cluster_in[PositionOf(id, cluster_in)]

\* The distance between two reports, in metres.
DistanceM(r1, r2) ==
    _haversine_distance(r1.latitude, r1.longitude, r2.latitude, r2.longitude)

C15_ClustersByTotalUrgency ==
    cluster_pc = "clustered" =>
        /\ \A c \in 1..Len(cluster_out) :
              cluster_out[c].total_urgency =
                  SumSeq([m \in 1..Len(cluster_out[c].reports) |->
                             ClusteredReport(cluster_out[c].reports[m]).urgency_score])
        /\ \A c \in 1..(Len(cluster_out) - 1) :
              cluster_out[c].total_urgency >= cluster_out[c + 1].total_urgency

\* C15 witness: the first cluster has the greater sum and the smaller
\* average than the second.
C15_Witness ==
    /\ cluster_pc = "clustered"
    /\ Len(cluster_out) >= 2
    /\ cluster_out[1].total_urgency > cluster_out[2].total_urgency
    /\ cluster_out[1].avg_urgency < cluster_out[2].avg_urgency

\* C16: when no report has coordinates, the clusters are one per distinct
\* district value, a missing or empty district counting as "Unknown": every
\* report is in the cluster of its district, and that cluster lists exactly
\* that district.
C16_DistrictFallback ==
    (cluster_pc = "clustered" /\ \A i \in 1..Len(cluster_in) : ~HasCoords(cluster_in[i])) =>
        /\ Len(cluster_out) =
              Cardinality({OrStr(cluster_in[i].district, "Unknown") : i \in 1..Len(cluster_in)})
        /\ \A i \in 1..Len(cluster_in) :
              \E c \in 1..Len(cluster_out) :
                  /\ cluster_in[i].id \in Range(cluster_out[c].reports)
                  /\ cluster_out[c].districts = {OrStr(cluster_in[i].district, "Unknown")}

\* C17: in the summary, the total_people of the districts add up to
\* total_people_affected.
C17_PeopleTotalsAgree ==
    summary_pc = "summarized" =>
        SumSeq([d \in 1..Len(summary_out.districts) |-> summary_out.districts[d].total_people])
          = summary_out.total_people_affected

\* C17 witness: a summary of more than ten districts, one of them with
\* several reports, and more people than reports.
C17_Witness ==
    /\ summary_pc = "summarized"
    /\ Len(summary_out.districts) > 10
    /\ \E d \in 1..Len(summary_out.districts) : summary_out.districts[d].count >= 2
    /\ summary_out.total_people_affected > summary_out.total_reports

\* The reports a district group of the summary counts: those of that
\* district, an empty or missing district counting as "Unknown".
GroupMembers(d, reports) ==
    SelectSeq(reports, LAMBDA r : OrStr(r.district, "Unknown") = d)

\* C18: for every district group of the summary, the "Unknown" group
\* included, count is the number of the group's reports and avg_urgency is
\* the sum of their urgency scores divided by count (to one decimal).
C18_GroupAverage ==
    summary_pc = "summarized" =>
        \A d \in 1..Len(summary_out.districts) :
            LET stats == summary_out.districts[d]
                members == GroupMembers(stats.district, summary_in)
            IN  /\ stats.count = Len(members)
                /\ stats.avg_urgency =
                      RoundTenths(SumSeq([m \in 1..Len(members) |-> members[m].urgency_score]),
                                  Len(members))

\* TRUE when district a ranks strictly higher than district b by the pair
\* (critical + high, count).
RanksAbove(a, b) ==
    \/ a.critical + a.high > b.critical + b.high
    \/ (a.critical + a.high = b.critical + b.high /\ a.count > b.count)

\* C19: most_affected_districts holds the stat blocks of min(10, number of
\* districts) different districts, no entry ranks above an earlier one, and
\* no district left out ranks above an entry.
C19_MostAffected ==
    summary_pc = "summarized" =>
        LET top == summary_out.most_affected_districts
            all == summary_out.districts
        IN  /\ Len(top) <= 10
            /\ Len(top) = (IF Len(all) <= 10 THEN Len(all) ELSE 10)
            /\ \A k \in 1..Len(top) : top[k] \in Range(all)
            /\ \A j, k \in 1..Len(top) : j # k => top[j].district # top[k].district
            /\ \A j, k \in 1..Len(top) : j < k => ~RanksAbove(top[k], top[j])
            /\ \A d \in 1..Len(all) :
                  all[d] \notin Range(top) => \A k \in 1..Len(top) : ~RanksAbove(all[d], top[k])

\* C19 witness: twelve or more districts, ten of them listed; the first
\* listed has a critical or high report and is not the district met first,
\* and the last listed has none.
C19_Witness ==
    /\ summary_pc = "summarized"
    /\ Len(summary_out.districts) >= 12
    /\ Len(summary_out.most_affected_districts) = 10
    /\ LET top == summary_out.most_affected_districts
       IN  /\ top[1].critical + top[1].high >= 1
           /\ top[1].district # summary_out.districts[1].district
           /\ top[10].critical + top[10].high = 0

\* C20: on every cache, get_district_intel returns the same reports, the
\* same clusters and the same summary slice for two spellings of a district
\* that differ in letter case only.
C20_DistrictCaseInsensitive ==
    \A d1, d2 \in AskedDistricts :
        Lower(d1) = Lower(d2) =>
            /\ get_district_intel(d1).reports = get_district_intel(d2).reports
            /\ get_district_intel(d1).clusters = get_district_intel(d2).clusters
            /\ get_district_intel(d1).summary = get_district_intel(d2).summary

\* The people count of a report, floored at 1.
PeopleFloored(r) == IF r.number_of_people <= 0 THEN 1 ELSE r.number_of_people

\* C21: total_people of every cluster is the sum of the people counts of
\* its members, a count of 0 or less counting as 1.
C21_ClusterPeopleFloored ==
    cluster_pc = "clustered" =>
        \A c \in 1..Len(cluster_out) :
            cluster_out[c].total_people =
                SumSeq([m \in 1..Len(cluster_out[c].reports) |->
                           PeopleFloored(ClusteredReport(cluster_out[c].reports[m]))])

\* The reports a run's lookups are made for, in the order of the lookups
\* (the i-th lookup is for the i-th report with coordinates).
LookedUpReports(t) == SelectSeq(local[t].reports, HasCoords)

\* The lookups of task t's run that have failed when the step ends: the
\* earlier ones, whose cell the run's dictionary maps to None, and the one
\* answered in this step when GeoNames' cache has not got its cell after it.
FailedLookups(t) ==
    { j \in 1..local[t].idx :
        LET c == local[t].coords_to_fetch[j]
            key == CacheKey(c[1], c[2])
        IN  IF j < local[t].idx
            THEN DictGet(local[t].elevation_cache, key) = NoneNum
            ELSE key \notin DOMAIN _elevation_cache' }

\* C22: within one run at most 50 elevation lookups are issued, and a lookup
\* that fails is not fatal: the run goes on to the next lookup or to its end,
\* where every report is scored and the reports whose lookup failed have
\* elevation_m null, elevation risk 0 and level "UNKNOWN".
C22_ElevationFailureTolerated ==
    [][ \A t \in Tasks :
          (pc[t] = "elev" /\ pc'[t] # "cancelled" /\ local'[t] # local[t]) =>
             /\ local[t].idx <= 50
             /\ pc'[t] \in {"elev", "done"}
             /\ pc'[t] = "done" =>
                  /\ { _cached_priorities'[i].id : i \in 1..Len(_cached_priorities') }
                        = { local[t].reports[i].id : i \in 1..Len(local[t].reports) }
                  /\ Len(_cached_priorities') = Len(local[t].reports)
                  /\ \A j \in FailedLookups(t) :
                        \A i \in 1..Len(_cached_priorities') :
                           _cached_priorities'[i].id = LookedUpReports(t)[j].id =>
                              /\ _cached_priorities'[i].elevation_m = NoneNum
                              /\ _cached_priorities'[i].elevation_risk = 0
                              /\ _cached_priorities'[i].elevation_risk_level = "UNKNOWN"
    ]_vars

\* The points the recorded factors of a scored report give under one name.
RecordedPoints(scored, name) ==
    SumSeq(MapSeq(SelectSeq(scored.score_factors, LAMBDA f : f.factor = name),
                  LAMBDA f : f.points))

\* The points of every recorded factor of a scored report but the three of
\* resource scarcity.
OtherPoints(scored) ==
    SumSeq(MapSeq(SelectSeq(scored.score_factors,
                            LAMBDA f : f.factor \notin {"no_food", "no_water", "low_battery"}),
                  LAMBDA f : f.points))

\* C23: resource scarcity adds +3 when the report has no food, +5 when it has
\* no water, and +2 only when it has no power and its battery percent is below
\* 20 as well; has power with a low battery adds nothing, and neither does no
\* power with a battery at 20 or more.  The three are recorded as factors and
\* are part of the score.
C23_ResourceScarcity ==
    score_pc = "scored" =>
        \A i \in 1..Len(score_out) :
            LET r == score_out[i]
                food == IF ~r.has_food THEN 3 ELSE 0
                water == IF ~r.has_water THEN 5 ELSE 0
                battery == IF ~r.has_power /\ r.battery_percent < 20 THEN 2 ELSE 0
            IN  /\ RecordedPoints(r, "no_food") = food
                /\ RecordedPoints(r, "no_water") = water
                /\ RecordedPoints(r, "low_battery") = battery
                /\ r.urgency_score = Min(100, OtherPoints(r) + food + water + battery)

\* C23 witness: a report that has power and a battery at 10 percent, no food
\* and no water, is scored with +3 and +5 and without the +2, below the cap.
C23_Witness ==
    /\ score_pc = "scored"
    /\ score_out[1].has_power /\ score_out[1].battery_percent = 10
    /\ ~score_out[1].has_food /\ ~score_out[1].has_water
    /\ RecordedPoints(score_out[1], "low_battery") = 0
    /\ RecordedPoints(score_out[1], "no_food") = 3
    /\ RecordedPoints(score_out[1], "no_water") = 5
    /\ score_out[1].urgency_score = OtherPoints(score_out[1]) + 8
    /\ score_out[1].urgency_score < 100

\* The points of every recorded factor of a scored report but the named one.
PointsWithout(scored, name) ==
    SumSeq(MapSeq(SelectSeq(scored.score_factors, LAMBDA f : f.factor # name),
                  LAMBDA f : f.points))

\* C24: time pressure is applied only when safe_for_hours is present, and is
\* +20 up to 1 h, else +15 up to 3 h, else +10 up to 6 h, else +5 up to 12 h,
\* else 0; when safe_for_hours is absent it is 0.  (Hours in tenths.)
C24_TimePressureBuckets ==
    score_pc = "scored" =>
        \A i \in 1..Len(score_out) :
            LET r == score_out[i]
                hours == r.safe_for_hours
                points == IF hours = NoneNum THEN 0
                          ELSE IF hours <= 10 THEN 20
                          ELSE IF hours <= 30 THEN 15
                          ELSE IF hours <= 60 THEN 10
                          ELSE IF hours <= 120 THEN 5
                          ELSE 0
            IN  /\ RecordedPoints(r, "safe_hours") = points
                /\ r.urgency_score = Min(100, PointsWithout(r, "safe_hours") + points)

\* C24 witness: a report that is safe for exactly 3 hours gets the +15 of the
\* second bucket.
C24_Witness ==
    /\ score_pc = "scored"
    /\ score_out[1].safe_for_hours = 30
    /\ RecordedPoints(score_out[1], "safe_hours") = 15
    /\ score_out[1].urgency_score = PointsWithout(score_out[1], "safe_hours") + 15

\* C25: the weather contribution of a report is that of the weather record
\* whose district equals the report's without regard to letter case: +15 for
\* a forecast above 100 mm, +10 above 50 mm, +5 above 25 mm, else 0; it is 0
\* without such a record, and the weather_risk field holds the points added.
C25_WeatherContribution ==
    score_pc = "scored" =>
        \A i \in 1..Len(score_out) :
            LET r == score_out[i]
                w == MatchingWeather(r, score_weather)
                rain == IF w = << >> \/ w[1].forecast_precip_24h_mm = NoneNum
                        THEN 0 ELSE w[1].forecast_precip_24h_mm
                points == IF rain > 100 THEN 15 ELSE IF rain > 50 THEN 10
                          ELSE IF rain > 25 THEN 5 ELSE 0
            IN  /\ r.weather_risk = points
                /\ RecordedPoints(r, "forecast_rain") = points
                /\ r.urgency_score = Min(100, PointsWithout(r, "forecast_rain") + points)

\* C25 witness: the report of district "Colombo" is matched with the record
\* of "COLOMBO" and its forecast of 51 mm, and gets +10.
C25_Witness ==
    /\ score_pc = "scored"
    /\ score_out[1].district = "Colombo"
    /\ score_weather # << >>
    /\ score_weather[1].district = "COLOMBO"
    /\ score_weather[1].forecast_precip_24h_mm = 51
    /\ score_out[1].weather_risk = 10
    /\ score_out[1].urgency_score = PointsWithout(score_out[1], "forecast_rain") + 10

\* C26: the centroid of a cluster is the mean of the latitudes and of the
\* longitudes of the members that have coordinates (in whole millidegrees),
\* both taken over the same members, and latitude and longitude are null
\* together when no member has coordinates.
C26_Centroid ==
    cluster_pc = "clustered" =>
        \A c \in 1..Len(cluster_out) :
            LET located == SelectSeq([m \in 1..Len(cluster_out[c].reports) |->
                                         ClusteredReport(cluster_out[c].reports[m])],
                                     HasCoords)
                n == Len(located)
            IN  IF n = 0
                THEN cluster_out[c].centroid = [latitude |-> NoneNum, longitude |-> NoneNum]
                ELSE cluster_out[c].centroid =
                        [ latitude |-> SumSeq([m \in 1..n |-> located[m].latitude]) \div n,
                          longitude |-> SumSeq([m \in 1..n |-> located[m].longitude]) \div n ]

\* C27: on the geographic path, the seeds (first members) of any two distinct
\* clusters are more than 2.0 km apart, and the seed of a cluster is its
\* member that comes earliest in the given, score-descending order.
C27_SeedsApart ==
    (cluster_pc = "clustered" /\ \E i \in 1..Len(cluster_in) : HasCoords(cluster_in[i])) =>
        /\ \A c, d \in 1..Len(cluster_out) :
              c # d => DistanceM(ClusteredReport(cluster_out[c].reports[1]),
                                 ClusteredReport(cluster_out[d].reports[1]))
                          > CLUSTER_RADIUS_M
        /\ \A c \in 1..Len(cluster_out) :
              \A m \in 1..Len(cluster_out[c].reports) :
                  PositionOf(cluster_out[c].reports[1], cluster_in)
                    <= PositionOf(cluster_out[c].reports[m], cluster_in)

\* C27 witness: two clusters whose seeds are 3.8 km apart, one of them with a
\* member between the two seeds, 1.9 km from each.
C27_Witness ==
    /\ cluster_pc = "clustered"
    /\ \A i \in 1..Len(cluster_in) : HasCoords(cluster_in[i])
    /\ Len(cluster_out) = 2
    /\ \E c, d \in 1..2 :
          /\ cluster_out[c].report_count = 2
          /\ cluster_out[d].report_count = 1
          /\ LET seed == ClusteredReport(cluster_out[c].reports[1])
                 absorbed == ClusteredReport(cluster_out[c].reports[2])
                 other == ClusteredReport(cluster_out[d].reports[1])
             IN  /\ DistanceM(seed, other) > CLUSTER_RADIUS_M
                 /\ DistanceM(seed, other) < 2 * CLUSTER_RADIUS_M
                 /\ DistanceM(absorbed, other) <= CLUSTER_RADIUS_M
                 /\ DistanceM(absorbed, seed) <= CLUSTER_RADIUS_M
                 /\ PositionOf(seed.id, cluster_in) < PositionOf(absorbed.id, cluster_in)

\* C28: every report is counted once at each level of the summary: in every
\* district critical + high + medium + low is the district's count, the
\* counts of the districts add up to total_reports, and so do the four
\* counts of urgency_breakdown.
C28_CountedOnce ==
    summary_pc = "summarized" =>
        /\ summary_out.total_reports = Len(summary_in)
        /\ \A d \in 1..Len(summary_out.districts) :
              LET stats == summary_out.districts[d]
              IN  stats.critical + stats.high + stats.medium + stats.low = stats.count
        /\ SumSeq([d \in 1..Len(summary_out.districts) |-> summary_out.districts[d].count])
              = summary_out.total_reports
        /\ summary_out.urgency_breakdown.critical + summary_out.urgency_breakdown.high
             + summary_out.urgency_breakdown.medium + summary_out.urgency_breakdown.low
              = summary_out.total_reports

\* C28 witness: a summary of twelve reports in eleven districts, one district
\* with a MEDIUM and a LOW report, and a CRITICAL report among the others.
C28_Witness ==
    /\ summary_pc = "summarized"
    /\ summary_out.total_reports = 12
    /\ Len(summary_out.districts) = 11
    /\ \E d \in 1..Len(summary_out.districts) :
          /\ summary_out.districts[d].count = 2
          /\ summary_out.districts[d].medium = 1
          /\ summary_out.districts[d].low = 1
    /\ summary_out.urgency_breakdown.critical = 1
    /\ summary_out.urgency_breakdown.medium = 1
    /\ summary_out.urgency_breakdown.low = 10

\* The ids of a list of reports, the entry of an id in the cache, and the
\* last report of a fetched list with an id.
IdsOf(reports) == { reports[i].id : i \in 1..Len(reports) }
EntryOf(cache, id) == cache[CHOOSE i \in 1..Len(cache) : cache[i].id = id]
LatestOf(new_reports, id) ==
    new_reports[CHOOSE j \in 1..Len(new_reports) :
                   /\ new_reports[j].id = id
                   /\ \A k \in (j + 1)..Len(new_reports) : new_reports[k].id # id]

\* C29: across the fetch_sos_reports calls of a behaviour, the SOS cache only
\* grows and is keyed by report id: no cached id is ever removed, a report
\* without id is never cached, a successful fetch leaves every returned id
\* with its latest version (and the others as they were), and a failing
\* fetch leaves the cache unchanged and returns its contents to the caller,
\* which goes on with them.
C29_SosCacheGrowOnly ==
    [][ /\ IdsOf(sos_cache) \subseteq IdsOf(sos_cache')
        /\ NoneNum \notin IdsOf(sos_cache')
        /\ Cardinality(IdsOf(sos_cache')) = Len(sos_cache')
        /\ \A t \in Tasks :
              (pc[t] = "fetch" /\ pc'[t] \in {"elev", "done"}) =>
                 /\ local'[t].reports = sos_cache'
                 /\ IF local'[t].fetch_failed
                    THEN sos_cache' = sos_cache
                    ELSE \E data \in ApiResponses :
                            LET new_reports == _normalize_reports(data)
                                fetched == IdsOf(new_reports) \ {NoneNum}
                            IN  /\ IdsOf(sos_cache') = IdsOf(sos_cache) \cup fetched
                                /\ \A id \in fetched :
                                      EntryOf(sos_cache', id) = LatestOf(new_reports, id)
                                /\ \A id \in IdsOf(sos_cache) \ fetched :
                                      EntryOf(sos_cache', id) = EntryOf(sos_cache, id)
        /\ (\A t \in Tasks : ~(pc[t] = "fetch" /\ pc'[t] \in {"elev", "done"}))
              => sos_cache' = sos_cache
    ]_vars

\* C29 witness: after two successful fetches the cache holds the reports 1, 2
\* and 3: report 2 of the first body, which the second body does not have,
\* report 1 in the version of the second body, and not its report without id.
C29_Witness ==
    /\ IdsOf(sos_cache) = {1, 2, 3}
    /\ Len(sos_cache) = 3
    /\ EntryOf(sos_cache, 1).water_level = "CHEST"
    /\ EntryOf(sos_cache, 1).number_of_people = 3
    /\ EntryOf(sos_cache, 2).water_level = "ANKLE"
    /\ \E t \in Tasks : pc[t] = "done" /\ ~local[t].fetch_failed /\ local[t].reports = sos_cache

\* C30: refresh_cache() calls never overlap: at most one of them is between
\* taking the lock and releasing it.  The cache and the last-update time change
\* only in the step that ends a call of which a district fetch succeeded, and
\* that call returns True.  A call all of whose district fetches failed leaves
\* both unchanged and returns False.  In the cache a call with some success
\* installs, a district whose fetch failed has the entry it had before when it
\* had one, and none otherwise, and a district whose fetch succeeded has its
\* new entry.  A call with force=False that finds the cache valid when it gets
\* the lock fetches nothing, changes nothing and returns True; any other call
\* goes on to fetch.
InLock(rpc, t) == rpc[t] \in {"fetch", "sleep"}
\* The call of t gets past `async with self._lock` in this step.
Entered(t) ==
    /\ refresh_pc[t] \in {"idle", "done", "waiting"}
    /\ refresh_pc'[t] \in {"fetch", "done"}
    /\ refresh_local'[t] # refresh_local[t]
\* The call of t returns in this step.
Returned(t) ==
    /\ refresh_pc'[t] = "done"
    /\ refresh_local'[t] # refresh_local[t]
CacheUnchanged ==
    /\ weather_cache' = weather_cache
    /\ weather_last_update' = weather_last_update
C30_RefreshStep ==
    /\ Cardinality({ t \in Refreshers : InLock(refresh_pc', t) }) <= 1
    /\ \A t \in Refreshers : InLock(refresh_pc', t) => weather_lock' = t
    /\ ~CacheUnchanged =>
          \E t \in Refreshers : /\ Returned(t)
                                 /\ refresh_local'[t].success_count > 0
                                 /\ refresh_local'[t].result = "True"
    /\ \A t \in Refreshers : Returned(t) =>
          LET l == refresh_local'[t]
          IN  /\ l.result \in {"True", "False"}
              /\ l.idx > 0 /\ l.success_count = 0 =>
                    /\ l.failed = Range(Districts)
                    /\ CacheUnchanged
                    /\ l.result = "False"
              /\ l.success_count > 0 =>
                    /\ l.result = "True"
                    /\ weather_last_update' = wall_clock
                    /\ \A i \in 1..Len(Districts) :
                          LET d == Districts[i]
                          IN  IF d \in l.failed
                              THEN IF HasEntry(weather_cache, d)
                                   THEN /\ HasEntry(weather_cache', d)
                                        /\ EntryFor(weather_cache', d) = EntryFor(weather_cache, d)
                                   ELSE ~HasEntry(weather_cache', d)
                              ELSE /\ HasEntry(weather_cache', d)
                                   /\ EntryFor(weather_cache', d) = EntryFor(l.new_cache, d)
    /\ \A t \in Refreshers : Entered(t) =>
          LET l == refresh_local'[t]
          IN  IF ~l.force /\ is_cache_valid(weather_cache, weather_last_update, wall_clock)
              THEN /\ Returned(t)
                   /\ l.idx = 0 /\ l.success_count = 0 /\ l.failed = {}
                   /\ CacheUnchanged
                   /\ l.result = "True"
              ELSE \/ InLock(refresh_pc', t)
                   \/ Returned(t) /\ l.idx > 0

C30_RefreshCache == [][C30_RefreshStep]_vars

\* A refresh ended with partial success: Colombo's fetch failed and its entry
\* from the start is still there, Galle's succeeded later, True was returned.
C30_Witness ==
    \E t \in Refreshers :
        /\ refresh_pc[t] = "done"
        /\ refresh_local[t].result = "True"
        /\ refresh_local[t].failed = {"Colombo"}
        /\ refresh_local[t].success_count = 1
        /\ weather_lock = "free"
        /\ weather_last_update > 0
        /\ HasEntry(weather_cache, "Colombo")
        /\ EntryFor(weather_cache, "Colombo").fetched_at = 0
        /\ HasEntry(weather_cache, "Galle")
        /\ EntryFor(weather_cache, "Galle").fetched_at > 0

====
